---- MODULE Spec2Model ----
(***************************************************************************)
(* Transcription orchestration core of src/modal/transcribe.py:            *)
(* backend ranking (select_optimal_transcription_service), the fallback    *)
(* engine (transcribe_with_fallback_chain), its orchestrator wrapper and   *)
(* the run entry point transcribe_youtube.                                 *)
(***************************************************************************)
EXTENDS Integers, Sequences, FiniteSets, TLC

VARIABLES
    file_exists,            \* audio_path.stat() succeeds
    file_size_mb,           \* audio_path.stat().st_size / (1024 * 1024)
    groq_key,               \* os.environ.get("GROQ_API_KEY") is truthy
    openai_key,             \* os.environ.get("OPENAI_API_KEY") is truthy
    torch,                  \* what `import torch` / torch.cuda answers
    pc,                     \* position of the run
    cuda_available,         \* local of transcribe_with_fallback_chain
    selected_service,       \* local of transcribe_with_fallback_chain
    available_services,     \* local of transcribe_with_fallback_chain
    chain_idx,              \* position of the for loop over fallback_chain
    transcription_result,   \* local of transcribe_with_fallback_chain
    used_service,           \* local of transcribe_with_fallback_chain
    now,                    \* time.time()
    attempts,               \* history: every service_func() call of the run
    log_entry,              \* value last returned by log_transcription_attempt
    attempt_log,            \* log entries the run holds on to
    chain_return,           \* value returned by transcribe_with_fallback_chain
    orch_return,            \* value returned by enhanced_transcription_orchestrator
    raised,                 \* exception propagating out of the current frame
    run_outcome,            \* how transcribe_youtube left its caller
    rank_calls,             \* standalone ranking calls made so far
    rank_env,               \* runtime state seen by the last ranking call
    rank_result,            \* what the last ranking call returned
    pydub,                  \* what `from pydub import AudioSegment` and its calls answer
    duration_ms,            \* len(AudioSegment.from_file(audio_path))
    max_size_mb,            \* argument of the last chunk_audio_for_groq call
    chunks,                 \* what the last chunk_audio_for_groq call returned
    chunk_calls,            \* chunk_audio_for_groq calls made so far
    backend,                \* how the Groq API is taken to answer
    source_words,           \* the words spoken in the asset, on its timeline
    groq_pc,                \* position of transcribe_with_groq
    chunk_i,                \* position of the for loop over audio_chunks
    chunk_answers,          \* history: what each chunk's API call answered
    chunk_results,          \* local of transcribe_with_groq
    merged_result,          \* what merge_chunked_transcriptions returned
    groq_outcome,           \* how transcribe_with_groq left its caller
    cookie_env,             \* the cookie blob held by the environment variable
    current_time,           \* time.time()
    disk,                   \* whether temp_path can be written
    temp_files,             \* files matching youtube_cookies*.txt in temp_path
    auth_pc,                \* position of the authentication setup
    auth_trace,             \* history: what the setup validated and created
    auth_return,            \* what the authentication setup returned
    temp_dir,               \* files of the run's tempfile.TemporaryDirectory()
    artifacts,              \* history: every file the run created there
    cleanups,               \* history: attempts made before each cleanup_temp_files call of the orchestrator
    aligned_data,           \* argument of generate_final_results
    word_groups,            \* local of generate_final_results
    final_result,           \* how generate_final_results left its caller
    final_pc,               \* position of the generate_final_results call
    demucs,                 \* what the demucs subprocess does
    vocals_exists,          \* vocals_path.exists()
    vocals_pc,              \* position of the separate_vocals_conservative call
    vocals_return,          \* how separate_vocals_conservative left its caller
    whisperx,               \* what `import whisperx` and its calls answer
    align_input,            \* transcription_result given to align_with_whisperx
    align_pc,               \* position of the align_with_whisperx call
    align_return,           \* how align_with_whisperx left its caller
    signal_pc,              \* position of the signal handling
    signum,                 \* the signal delivered to the process
    temp_fs,                \* how the files under the working directory behave
    handler_trace,          \* history: the cleanup calls the handler made
    exit_status,            \* argument of sys.exit
    retry_pc,               \* position of a with_error_recovery wrapper call
    attempt,                \* loop variable of the wrapper
    retry_delay,            \* local of the wrapper, in milliseconds
    retry_trace,            \* history: invocations, cleanups and sleeps of the call
    retry_outcome           \* how the wrapper left its caller

env == <<file_exists, file_size_mb, groq_key, openai_key, torch>>

runvars == <<pc, cuda_available, selected_service, available_services,
             chain_idx, transcription_result, used_service, now, attempts,
             log_entry, attempt_log, chain_return, orch_return, raised,
             run_outcome>>

rankvars == <<rank_calls, rank_env, rank_result>>

chunkvars == <<pydub, duration_ms, max_size_mb, chunks, chunk_calls>>

groqvars == <<backend, source_words, groq_pc, chunk_i, chunk_answers,
              chunk_results, merged_result, groq_outcome>>

cookievars == <<cookie_env, current_time, disk, temp_files, auth_pc, auth_trace,
                auth_return>>

tmpvars == <<temp_dir, artifacts, cleanups>>

othervars == <<chunkvars, groqvars, cookievars>>

finalvars == <<aligned_data, word_groups, final_result, final_pc>>

vocalsvars == <<demucs, vocals_exists, vocals_pc, vocals_return>>

alignvars == <<whisperx, align_input, align_pc, align_return>>

stagevars == <<vocalsvars, alignvars>>

guardvars == <<signal_pc, signum, temp_fs, handler_trace, exit_status,
               retry_pc, attempt, retry_delay, retry_trace, retry_outcome>>

postvars == <<finalvars, stagevars, guardvars>>

auxvars == <<othervars, tmpvars, postvars>>

vars == <<env, runvars, rankvars, auxvars>>

-----------------------------------------------------------------------------
(* Bounds *)

MaxElapsed == 1
MaxSegments == 1
MaxWords == 1
MaxDuration == 1
MaxRankCalls == 2

-----------------------------------------------------------------------------
(* Values *)

\* Python's None where a result dict is expected
None == [none |-> TRUE]

NoService == "None"
NoError == "None"

GroqLimitMb == 20
OpenAILimitMb == 25

\* sizes on both sides of each limit
FileSizesMb == {GroqLimitMb, GroqLimitMb + 1, OpenAILimitMb, OpenAILimitMb + 1, 30}

\* one audio size per side of the limits, for a whole run
RunFileSizesMb == {GroqLimitMb, OpenAILimitMb, 30}

TorchStates == {"cuda", "no_cuda", "import_error", "query_error"}

AllFailedMsg == "All transcription services failed"
DownloadFailedMsg == "Failed to download audio from YouTube"

-----------------------------------------------------------------------------
(* Backend results.  A result is the dict the backends build: "segments"   *)
(* (each with its "words" list), "language" and "duration".                *)

Word == "w"

WordLists == UNION {[1..n -> {Word}] : n \in 0..MaxWords}

Segments == {[words |-> ws] : ws \in WordLists}

SegmentLists == UNION {[1..n -> Segments] : n \in 0..MaxSegments}

\* transcribe_with_faster_whisper: segments as the model yields them, a
\* segment may carry no words; duration is info.duration
LocalResults ==
    {[segments |-> ss, language |-> "en", duration |-> d] :
        ss \in SegmentLists, d \in 0..MaxDuration}

\* transcribe_single_chunk_with_groq / transcribe_with_openai_whisper: the
\* segments are built from the word list, so none is empty, and without
\* words there is no segment and the duration is 0
HostedResults ==
    {r \in LocalResults :
        /\ \A i \in DOMAIN r.segments : Len(r.segments[i].words) > 0
        /\ (r.segments = <<>> => r.duration = 0)}

Raise(msg) == [raised |-> TRUE, error |-> msg, result |-> None]

Return(r) == [raised |-> FALSE, error |-> NoError, result |-> r]

\* transcribe_with_groq(audio_path, os.environ.get("GROQ_API_KEY")): the
\* client cannot be built without a key
transcribe_with_groq(key) ==
    IF key
    THEN {Raise("groq error")} \cup {Return(r) : r \in HostedResults}
    ELSE {Raise("groq error")}

transcribe_with_openai_whisper(key) ==
    IF key
    THEN {Raise("openai error")} \cup {Return(r) : r \in HostedResults}
    ELSE {Raise("openai error")}

transcribe_with_faster_whisper ==
    {Raise("faster-whisper error")} \cup {Return(r) : r \in LocalResults}

-----------------------------------------------------------------------------
(* validate_transcription_result *)

RECURSIVE SumWords(_)
SumWords(segs) ==
    IF segs = <<>> THEN 0
    ELSE Len(Head(segs).words) + SumWords(Tail(segs))

required_fields == {"segments", "language", "duration"}

\* the validation with its duration check left out
validate_without_duration(result) ==
    IF result = None
    THEN [valid |-> FALSE, msg |-> "Result is None or empty"]
    ELSE IF ~(required_fields \subseteq DOMAIN result)
    THEN [valid |-> FALSE, msg |-> "Missing required field"]
    ELSE IF result.segments = <<>>
    THEN [valid |-> FALSE, msg |-> "No segments found in transcription"]
    ELSE IF SumWords(result.segments) = 0
    THEN [valid |-> FALSE, msg |-> "No words found in transcription"]
    ELSE [valid |-> TRUE, msg |-> "Valid transcription"]

validate_transcription_result(result) ==
    IF result = None
    THEN [valid |-> FALSE, msg |-> "Result is None or empty"]
    ELSE IF ~(required_fields \subseteq DOMAIN result)
    THEN [valid |-> FALSE, msg |-> "Missing required field"]
    ELSE IF result.segments = <<>>
    THEN [valid |-> FALSE, msg |-> "No segments found in transcription"]
    ELSE IF SumWords(result.segments) = 0
    THEN [valid |-> FALSE, msg |-> "No words found in transcription"]
    ELSE IF result.duration <= 0
    THEN [valid |-> FALSE, msg |-> "Invalid duration"]
    ELSE [valid |-> TRUE, msg |-> "Valid transcription"]

-----------------------------------------------------------------------------
(* log_transcription_attempt: builds the entry, prints it, returns it *)

log_transcription_attempt(service, audio_size, gpu_available, success, error, duration) ==
    [timestamp        |-> now',
     service          |-> service,
     audio_size_mb    |-> audio_size,
     gpu_available    |-> gpu_available,
     success          |-> success,
     duration_seconds |-> duration,
     error            |-> error]

NoEntry == [service |-> NoService]

-----------------------------------------------------------------------------
(* detect_cuda_availability *)

\* the detection without its catch-all except clause
detect_cuda_unguarded(t) ==
    IF t = "cuda"
    THEN [raised |-> FALSE, available |-> TRUE, gpu_count |-> 1, gpu_name |-> "GPU"]
    ELSE IF t = "query_error"
    THEN [raised |-> TRUE, available |-> FALSE, gpu_count |-> 0, gpu_name |-> "CPU"]
    ELSE [raised |-> FALSE, available |-> FALSE, gpu_count |-> 0, gpu_name |-> "CPU"]

detect_cuda_availability(t) ==
    IF t = "cuda"
    THEN [raised |-> FALSE, available |-> TRUE, gpu_count |-> 1, gpu_name |-> "GPU"]
    ELSE \* not available, ImportError, or any other exception
         [raised |-> FALSE, available |-> FALSE, gpu_count |-> 0, gpu_name |-> "CPU"]

-----------------------------------------------------------------------------
(* select_optimal_transcription_service *)

\* services.sort(key=lambda x: x['priority']): stable insertion by priority
RECURSIVE InsertByPriority(_, _)
InsertByPriority(s, sorted) ==
    IF sorted = <<>> THEN <<s>>
    ELSE IF Head(sorted).priority <= s.priority
    THEN <<Head(sorted)>> \o InsertByPriority(s, Tail(sorted))
    ELSE <<s>> \o sorted

RECURSIVE SortByPriority(_)
SortByPriority(list) ==
    IF list = <<>> THEN <<>>
    ELSE InsertByPriority(list[Len(list)], SortByPriority(SubSeq(list, 1, Len(list) - 1)))

Service(name, priority) == [name |-> name, priority |-> priority]

\* the decision matrix, in the order the code appends
DecisionMatrix(size_mb, cuda, gkey, okey) ==
       (IF gkey /\ size_mb <= GroqLimitMb
        THEN <<Service("groq", 1)>> ELSE <<>>)
    \o (IF cuda
        THEN <<Service("faster_whisper_gpu", 2)>> ELSE <<>>)
    \o (IF okey /\ size_mb <= OpenAILimitMb
        THEN <<Service("openai_whisper", 3)>> ELSE <<>>)
    \o <<Service("faster_whisper_cpu", 4)>>

\* a ranking call returns (selected name, services) or propagates an error
CpuFallback == [raised |-> FALSE, selected |-> "faster_whisper_cpu", services |-> <<>>]

\* the ranking with a services list that outlives the call
select_with_shared_services(exists, size_mb, t, gkey, okey) ==
    IF ~exists
    THEN CpuFallback
    ELSE
      LET cuda == detect_cuda_availability(t)
      IN  IF cuda.raised
          THEN CpuFallback
          ELSE
            LET services == SortByPriority(
                    rank_result.services
                    \o DecisionMatrix(size_mb, cuda.available, gkey, okey))
            IN  [raised |-> FALSE, selected |-> services[1].name, services |-> services]

select_optimal_transcription_service(exists, size_mb, t, gkey, okey) ==
    IF ~exists
    THEN CpuFallback    \* audio_path.stat() raised: the except branch
    ELSE
      LET cuda == detect_cuda_availability(t)
      IN  IF cuda.raised
          THEN CpuFallback
          ELSE
            LET services == SortByPriority(DecisionMatrix(size_mb, cuda.available, gkey, okey))
            IN  [raised |-> FALSE, selected |-> services[1].name, services |-> services]

ServiceNames(services) == {services[i].name : i \in DOMAIN services}

-----------------------------------------------------------------------------
(* transcribe_with_fallback_chain *)

\* the entries the other way round
ReversedChain == <<"faster_whisper_cpu", "openai_whisper", "faster_whisper_gpu", "groq">>

fallback_chain == <<"groq", "faster_whisper_gpu", "openai_whisper", "faster_whisper_cpu">>

\* the lambdas of fallback_chain
service_func(service_name) ==
    CASE service_name = "groq" -> transcribe_with_groq(groq_key)
      [] service_name = "openai_whisper" -> transcribe_with_openai_whisper(openai_key)
      [] OTHER -> transcribe_with_faster_whisper

\* if service_name == selected_service or transcription_result is None
ShouldAttempt(service_name, selected, result) ==
    service_name = selected \/ result = None

\* the loop without its break
NoBreakOnValid(is_valid) == FALSE

\* the break after a valid result
BreakOnValid(is_valid) == is_valid

\* the loop goes on to the next entry unless it broke or the chain is exhausted
AfterIteration(broke) ==
    IF broke \/ chain_idx = Len(fallback_chain)
    THEN pc' = "chain_end" /\ chain_idx' = chain_idx
    ELSE pc' = "chain_loop" /\ chain_idx' = chain_idx + 1

\* get_optimal_device_and_compute_type: the device
get_optimal_device(t) ==
    IF detect_cuda_availability(t).available THEN "cuda" ELSE "cpu"

\* the device get_or_load_faster_whisper_model loads the model on when the
\* entry's lambda is called; the hosted entries load none
DeviceOf(service_name, t) ==
    IF service_name \in {"faster_whisper_gpu", "faster_whisper_cpu"}
    THEN get_optimal_device(t)
    ELSE "remote"

Attempt(service_name, outcome, accepted, elapsed) ==
    [service |-> service_name, raised |-> outcome.raised, result |-> outcome.result,
     accepted |-> accepted, elapsed |-> elapsed,
     device |-> DeviceOf(service_name, torch)]

\* file size, detect_cuda_availability, select_optimal_transcription_service,
\* the locals before the loop
ChainSetup ==
    /\ pc = "chain_start"
    /\ IF ~file_exists
       THEN /\ raised' = "FileNotFoundError"
            /\ pc' = "orch_except"
            /\ UNCHANGED <<cuda_available, selected_service, available_services,
                           chain_idx, transcription_result, used_service>>
       ELSE LET cuda == detect_cuda_availability(torch)
                sel  == select_optimal_transcription_service(
                            file_exists, file_size_mb, torch, groq_key, openai_key)
            IN  IF cuda.raised
                THEN /\ raised' = "detection error"
                     /\ pc' = "orch_except"
                     /\ UNCHANGED <<cuda_available, selected_service, available_services,
                                    chain_idx, transcription_result, used_service>>
                ELSE /\ cuda_available' = cuda.available
                     /\ selected_service' = sel.selected
                     /\ available_services' = sel.services
                     /\ chain_idx' = 1
                     /\ transcription_result' = None
                     /\ used_service' = NoService
                     /\ pc' = "chain_loop"
                     /\ UNCHANGED raised
    /\ UNCHANGED <<env, rankvars, auxvars, now, attempts, log_entry, attempt_log,
                   chain_return, orch_return, run_outcome>>

\* one iteration of the loop that calls the service
TryService ==
    /\ pc = "chain_loop"
    /\ LET service_name == fallback_chain[chain_idx]
       IN  /\ ShouldAttempt(service_name, selected_service, transcription_result)
           /\ \E outcome \in service_func(service_name), elapsed \in 1..MaxElapsed :
                /\ now' = now + elapsed
                /\ IF outcome.raised
                   THEN \* except Exception: log, cleanup, continue
                        /\ log_entry' = log_transcription_attempt(
                                service_name, file_size_mb, cuda_available,
                                FALSE, outcome.error, elapsed)
                        /\ attempts' = Append(attempts,
                                Attempt(service_name, outcome, FALSE, elapsed))
                        /\ UNCHANGED <<transcription_result, used_service>>
                        /\ AfterIteration(FALSE)
                   ELSE LET v == validate_transcription_result(outcome.result)
                        IN  /\ transcription_result' = outcome.result
                            /\ used_service' = IF v.valid THEN service_name ELSE used_service
                            /\ log_entry' = log_transcription_attempt(
                                    service_name, file_size_mb, cuda_available,
                                    v.valid, IF v.valid THEN NoError ELSE v.msg, elapsed)
                            /\ attempts' = Append(attempts,
                                    Attempt(service_name, outcome, v.valid, elapsed))
                            /\ AfterIteration(BreakOnValid(v.valid))
    \* the entry log_transcription_attempt returns is dropped by the caller
    /\ UNCHANGED attempt_log
    /\ UNCHANGED <<env, rankvars, auxvars, cuda_available, selected_service, available_services,
                   chain_return, orch_return, raised, run_outcome>>

\* one iteration of the loop whose condition is false
SkipService ==
    /\ pc = "chain_loop"
    /\ ~ShouldAttempt(fallback_chain[chain_idx], selected_service, transcription_result)
    /\ AfterIteration(FALSE)
    /\ UNCHANGED <<env, rankvars, auxvars, cuda_available, selected_service, available_services,
                   transcription_result, used_service, now, attempts, log_entry,
                   attempt_log, chain_return, orch_return, raised, run_outcome>>

\* if transcription_result and used_service: return, else raise
ChainFinish ==
    /\ pc = "chain_end"
    /\ IF transcription_result # None /\ used_service # NoService
       THEN /\ chain_return' = transcription_result
            /\ pc' = "orch_validate"
            /\ UNCHANGED raised
       ELSE /\ raised' = AllFailedMsg
            /\ pc' = "orch_except"
            /\ UNCHANGED chain_return
    /\ UNCHANGED <<env, rankvars, auxvars, cuda_available, selected_service, available_services,
                   chain_idx, transcription_result, used_service, now, attempts,
                   log_entry, attempt_log, orch_return, run_outcome>>

-----------------------------------------------------------------------------
(* enhanced_transcription_orchestrator *)

\* setup_signal_handlers() (signal.signal may raise), monitor_system_resources()
OrchestratorEnter ==
    /\ pc = "orchestrator"
    /\ \E signals_ok \in BOOLEAN :
         IF signals_ok
         THEN pc' = "chain_start" /\ UNCHANGED raised
         ELSE pc' = "orch_except" /\ raised' = "signal setup error"
    /\ UNCHANGED <<env, rankvars, auxvars, cuda_available, selected_service, available_services,
                   chain_idx, transcription_result, used_service, now, attempts,
                   log_entry, attempt_log, chain_return, orch_return, run_outcome>>

\* a return that skips the cleanup
ReturnWithoutCleanup(log, attempted) == log

\* safe_gpu_memory_cleanup(); cleanup_temp_files() before the return
CleanupBeforeReturn(log, attempted) == Append(log, attempted)

\* safe_gpu_memory_cleanup(); cleanup_temp_files() before the raise
FinalCleanup(log, attempted) == Append(log, attempted)

\* validate the final result, clean up, return
OrchestratorValidate ==
    /\ pc = "orch_validate"
    /\ LET v == validate_transcription_result(chain_return)
       IN  IF v.valid
           THEN /\ orch_return' = chain_return
                /\ cleanups' = CleanupBeforeReturn(cleanups, Len(attempts))
                /\ pc' = "generate"
                /\ UNCHANGED raised
           ELSE /\ raised' = "Final transcription result validation failed"
                /\ pc' = "orch_except"
                /\ UNCHANGED <<orch_return, cleanups>>
    /\ UNCHANGED <<env, rankvars, othervars, postvars, temp_dir, artifacts, cuda_available, selected_service, available_services,
                   chain_idx, transcription_result, used_service, now, attempts,
                   log_entry, attempt_log, chain_return, run_outcome>>

\* except Exception: clean up, raise
OrchestratorExcept ==
    /\ pc = "orch_except"
    /\ cleanups' = FinalCleanup(cleanups, Len(attempts))
    /\ pc' = "run_except"
    /\ UNCHANGED <<env, rankvars, othervars, postvars, temp_dir, artifacts, cuda_available, selected_service, available_services,
                   chain_idx, transcription_result, used_service, now, attempts,
                   log_entry, attempt_log, chain_return, orch_return, raised,
                   run_outcome>>

-----------------------------------------------------------------------------
(* transcribe_youtube *)

\* download_youtube_audio(youtube_url, temp_path): a path, None, or an error
download_youtube_audio == {"path", "None", "raised"}

\* what the download leaves in temp_path: the credential file when one was
\* provisioned, and the audio when it answers with a path
DownloadedFiles(got, with_cookies) ==
    (IF with_cookies THEN {"youtube_cookies"} ELSE {})
        \cup (IF got = "path" THEN {"audio"} ELSE {})

\* a directory that is never removed
LeftBehind(files) == files

\* leaving `with tempfile.TemporaryDirectory() as temp_dir`
TemporaryDirectoryExit(files) == {}

Returned(value) == [kind |-> "returned", error |-> NoError, value |-> value]

Raised(msg) == [kind |-> "raised", error |-> msg, value |-> None]

Running == [kind |-> "running", error |-> NoError, value |-> None]

\* a test that lets every answer through
NeverMissing(got) == FALSE

\* if not audio_path
NotAudio(got) == got = "None"

Download ==
    /\ pc = "download"
    /\ \E got \in download_youtube_audio, with_cookies \in BOOLEAN :
         /\ temp_dir' = DownloadedFiles(got, with_cookies)
         /\ artifacts' = artifacts \cup DownloadedFiles(got, with_cookies)
         /\ CASE got = "raised" ->
                   /\ raised' = "download error"
                   /\ pc' = "run_except"
                   /\ UNCHANGED file_exists
              [] got # "raised" /\ NotAudio(got) ->
                   /\ raised' = DownloadFailedMsg
                   /\ pc' = "run_except"
                   /\ UNCHANGED file_exists
              [] OTHER ->
                   /\ file_exists' = (got = "path")
                   /\ pc' = "orchestrator"
                   /\ UNCHANGED raised
    /\ UNCHANGED <<cleanups, file_size_mb, groq_key, openai_key, torch, rankvars, othervars, postvars, cuda_available,
                   selected_service, available_services, chain_idx,
                   transcription_result, used_service, now, attempts, log_entry,
                   attempt_log, chain_return, orch_return, run_outcome>>

\* generate_final_results and the return of final_result
GenerateFinal ==
    /\ pc = "generate"
    /\ run_outcome' = Returned(orch_return)
    /\ temp_dir' = TemporaryDirectoryExit(temp_dir)
    /\ file_exists' = ("audio" \in temp_dir')
    /\ pc' = "done"
    /\ UNCHANGED <<file_size_mb, groq_key, openai_key, torch, artifacts, cleanups>>
    /\ UNCHANGED <<rankvars, othervars, postvars, cuda_available, selected_service, available_services,
                   chain_idx, transcription_result, used_service, now, attempts,
                   log_entry, attempt_log, chain_return, orch_return, raised>>

\* except Exception: print, traceback, raise
RunExcept ==
    /\ pc = "run_except"
    /\ run_outcome' = Raised(raised)
    /\ temp_dir' = TemporaryDirectoryExit(temp_dir)
    /\ file_exists' = ("audio" \in temp_dir')
    /\ pc' = "done"
    /\ UNCHANGED <<file_size_mb, groq_key, openai_key, torch, artifacts, cleanups>>
    /\ UNCHANGED <<rankvars, othervars, postvars, cuda_available, selected_service, available_services,
                   chain_idx, transcription_result, used_service, now, attempts,
                   log_entry, attempt_log, chain_return, orch_return, raised>>

-----------------------------------------------------------------------------
(* Size-aware chunker: chunk_audio_for_groq *)

ChunkDurationMs == 600000
OverlapMs == 1000

Min(a, b) == IF a <= b THEN a ELSE b
Max(a, b) == IF a >= b THEN a ELSE b

\* math.ceil(a / b) for a >= 0, b > 0
Ceil(a, b) == (a + b - 1) \div b

PydubStates == {"ok", "import_error", "load_error", "export_error"}

DurationsMs ==
    {0, 1, OverlapMs, ChunkDurationMs - OverlapMs, ChunkDurationMs,
     ChunkDurationMs + 1, ChunkDurationMs + OverlapMs,
     2 * ChunkDurationMs - 1, 2 * ChunkDurationMs, 2 * ChunkDurationMs + 1,
     2 * ChunkDurationMs + OverlapMs + 1, 3 * ChunkDurationMs}

\* audio_path itself, returned when nothing is split
OriginalFile == [original |-> TRUE]

\* the file exported for index i, without the overlap
ExportedWithoutOverlap(i, dur) ==
    LET start_time == i * ChunkDurationMs
        end_time == Min((i + 1) * ChunkDurationMs, dur)
    IN  [original |-> FALSE, index |-> i,
         start_time |-> start_time, end_time |-> end_time,
         chunk_start |-> start_time, chunk_end |-> end_time]

\* the file exported by one iteration of the for loop
Exported(i, dur) ==
    LET start_time == i * ChunkDurationMs
        end_time == Min((i + 1) * ChunkDurationMs, dur)
    IN  [original |-> FALSE, index |-> i,
         start_time |-> start_time, end_time |-> end_time,
         chunk_start |-> Max(0, start_time - OverlapMs),
         chunk_end |-> Min(dur, end_time + OverlapMs)]

chunk_audio_for_groq(exists, size_mb, max_mb, dur, pd) ==
    IF pd = "import_error" THEN <<OriginalFile>>
    ELSE IF ~exists THEN <<OriginalFile>>
    ELSE IF size_mb <= max_mb THEN <<OriginalFile>>
    ELSE IF pd = "load_error" THEN <<OriginalFile>>
    ELSE LET num_chunks == Ceil(dur, ChunkDurationMs)
         IN  IF pd = "export_error" /\ num_chunks > 0 THEN <<OriginalFile>>
             ELSE [k \in 1..num_chunks |-> Exported(k - 1, dur)]

ChunkIdle ==
    /\ pydub = "ok"
    /\ duration_ms = 0
    /\ max_size_mb = GroqLimitMb
    /\ chunks = <<>>
    /\ chunk_calls = 0

EnvIdle ==
    /\ file_exists = TRUE
    /\ file_size_mb = GroqLimitMb
    /\ groq_key = FALSE
    /\ openai_key = FALSE
    /\ torch = "no_cuda"

-----------------------------------------------------------------------------
(* transcribe_single_chunk_with_groq: the result built from the API's words *)

WordsPerSegment == 10

\* the probability every hosted word is given, in thousandths
HostedProbability == 900

\* the words of segment g (1-based)
SegmentWords(words, g) ==
    SubSeq(words, (g - 1) * WordsPerSegment + 1, Min(g * WordsPerSegment, Len(words)))

BuildSegments(words) ==
    [g \in 1..Ceil(Len(words), WordsPerSegment) |->
        LET current_segment == SegmentWords(words, g)
        IN  [id |-> g - 1,
             start |-> current_segment[1].start,
             end |-> current_segment[Len(current_segment)].end,
             words |-> [j \in DOMAIN current_segment |->
                          [word |-> current_segment[j].word,
                           start |-> current_segment[j].start,
                           end |-> current_segment[j].end,
                           probability |-> HostedProbability]]]]

transcribe_single_chunk_with_groq(words) ==
    [segments |-> BuildSegments(words),
     language |-> "en",
     duration |-> IF words = <<>> THEN 0 ELSE words[Len(words)].end,
     text |-> [j \in DOMAIN words |-> words[j].word]]

-----------------------------------------------------------------------------
(* merge_chunked_transcriptions.  Times are in milliseconds. *)

OverlapCompensationMs == 1000

\* a dict with no key at all
EmptyDict == [empty |-> TRUE]

\* `not value` for a dict or None
Falsy(value) == value = None \/ value = EmptyDict

Skipped(chunk_result) ==
    \/ Falsy(chunk_result)
    \/ "segments" \notin DOMAIN chunk_result

SegmentsOf(chunk_result) ==
    IF Skipped(chunk_result) THEN <<>> ELSE chunk_result.segments

\* what one chunk adds to time_offset, the overlap left uncompensated
AdvanceWithoutCompensation(chunk_result) ==
    LET segments == SegmentsOf(chunk_result)
    IN  IF segments # <<>> THEN segments[Len(segments)].end ELSE 0

\* what one chunk adds to time_offset
OffsetAdvance(chunk_result) ==
    LET segments == SegmentsOf(chunk_result)
    IN  IF segments # <<>>
        THEN segments[Len(segments)].end - OverlapCompensationMs
        ELSE 0

\* time_offset when the loop reaches chunk k
RECURSIVE TimeOffsetAt(_, _)
TimeOffsetAt(results, k) ==
    IF k = 1 THEN 0
    ELSE TimeOffsetAt(results, k - 1) + OffsetAdvance(results[k - 1])

\* segment ids restarting with each chunk
ChunkLocalIdOffset(results, k) == 0

\* segment_id_offset when the loop reaches chunk k
RECURSIVE SegmentIdOffsetAt(_, _)
SegmentIdOffsetAt(results, k) ==
    IF k = 1 THEN 0
    ELSE SegmentIdOffsetAt(results, k - 1) + Len(SegmentsOf(results[k - 1]))

ShiftedWords(words, time_offset) ==
    [j \in DOMAIN words |->
        [words[j] EXCEPT !.start = @ + time_offset, !.end = @ + time_offset]]

AdjustedSegment(segment, id, time_offset) ==
    [segment EXCEPT !.id = id,
                    !.start = @ + time_offset,
                    !.end = @ + time_offset,
                    !.words = ShiftedWords(@, time_offset)]

\* what the inner loop appends for chunk k
AdjustedSegments(results, k) ==
    LET segments == SegmentsOf(results[k])
    IN  [s \in DOMAIN segments |->
            AdjustedSegment(segments[s], SegmentIdOffsetAt(results, k) + s - 1,
                            TimeOffsetAt(results, k))]

\* merged_segments after the first k chunks
RECURSIVE MergedSegments(_, _)
MergedSegments(results, k) ==
    IF k = 0 THEN <<>>
    ELSE MergedSegments(results, k - 1) \o AdjustedSegments(results, k)

\* chunk.get(key, default)
Get(chunk, key, default) ==
    IF chunk # EmptyDict /\ key \in DOMAIN chunk THEN chunk[key] ELSE default

RECURSIVE SumDurations(_, _)
SumDurations(results, k) ==
    IF k = 0 THEN 0
    ELSE SumDurations(results, k - 1) + Get(results[k], "duration", 0)

RECURSIVE JoinedText(_, _)
JoinedText(results, k) ==
    IF k = 0 THEN <<>>
    ELSE JoinedText(results, k - 1) \o Get(results[k], "text", <<>>)

\* the value returned; .get on a None entry raises and the except branch
\* answers with the first entry
merge_chunked_transcriptions(results) ==
    IF \E k \in DOMAIN results : results[k] = None
    THEN IF results # <<>> THEN results[1] ELSE None
    ELSE [segments |-> MergedSegments(results, Len(results)),
          language |-> IF results # <<>> THEN Get(results[1], "language", "en") ELSE "en",
          duration |-> SumDurations(results, Len(results)),
          text |-> JoinedText(results, Len(results))]

\* chunk_results after the call: segment.copy() is shallow, so the word dicts
\* shifted in place are those of the caller's list
ResultsAfterMerge(results) ==
    [k \in DOMAIN results |->
        IF Skipped(results[k]) THEN results[k]
        ELSE LET segments == results[k].segments
                 shifted == [s \in DOMAIN segments |->
                               [segments[s] EXCEPT
                                  !.words = ShiftedWords(@, TimeOffsetAt(results, k))]]
             IN  [results[k] EXCEPT !.segments = shifted]]

-----------------------------------------------------------------------------
(* The Groq API as transcribe_single_chunk_with_groq meets it *)

MaxChunks == 3

WordMs == 300

\* n words of WordMs each, the first at `first`, one every `step`
WordTrain(n, first, step) ==
    [j \in 1..n |-> [word |-> j,
                     start |-> first + (j - 1) * step,
                     end |-> first + (j - 1) * step + WordMs]]

\* word lists of no word, one segment and two segments, starting within and
\* after the first second of the file, back to back and spaced
AnyWords ==
    {WordTrain(n, first, step) :
        n \in {0, 1, 2, WordsPerSegment + 1},
        first \in {0, OverlapCompensationMs + 500},
        step \in {WordMs, OverlapCompensationMs}}

\* words of the asset the API may be asked about: away from every chunk
\* boundary, and inside the second before and the second after one
CandidateWords ==
    <<[word |-> 1, start |-> 100000, end |-> 100000 + WordMs],
      [word |-> 2, start |-> ChunkDurationMs - 800, end |-> ChunkDurationMs - 800 + WordMs],
      [word |-> 3, start |-> ChunkDurationMs + 400, end |-> ChunkDurationMs + 400 + WordMs],
      [word |-> 4, start |-> ChunkDurationMs + 100000, end |-> ChunkDurationMs + 100000 + WordMs],
      [word |-> 5, start |-> 2 * ChunkDurationMs - 500, end |-> 2 * ChunkDurationMs - 500 + WordMs]>>

\* the candidates picked by `picked`, in order of time
RECURSIVE PickedWords(_, _)
PickedWords(picked, k) ==
    IF k = 0 THEN <<>>
    ELSE IF k \in picked THEN Append(PickedWords(picked, k - 1), CandidateWords[k])
    ELSE PickedWords(picked, k - 1)

Sources == {PickedWords(picked, Len(CandidateWords)) : picked \in SUBSET DOMAIN CandidateWords}

\* a word away from every chunk boundary, inside the window of index i
InteriorWord(i) ==
    [word |-> 2 * i + 1,
     start |-> i * ChunkDurationMs + 100000,
     end |-> i * ChunkDurationMs + 100000 + WordMs]

\* a word that ends exactly where the file exported for index i ends
TailWord(i, dur) ==
    [word |-> 2 * i + 2,
     start |-> Exported(i, dur).chunk_end - WordMs,
     end |-> Exported(i, dur).chunk_end]

\* an asset whose every chunk is sung up to its end: the tail word of each of
\* the first n windows, after the interior word of the windows in `picked`
RECURSIVE SungToTheEnd(_, _, _)
SungToTheEnd(n, dur, picked) ==
    IF n = 0 THEN <<>>
    ELSE SungToTheEnd(n - 1, dur, picked)
            \o (IF n - 1 \in picked THEN <<InteriorWord(n - 1)>> ELSE <<>>)
            \o <<TailWord(n - 1, dur)>>

\* the words of `words` lying inside [from, to], on the timeline starting at from
RECURSIVE WordsWithin(_, _, _, _)
WordsWithin(words, from, to, k) ==
    IF k = 0 THEN <<>>
    ELSE IF words[k].start >= from /\ words[k].end <= to
    THEN Append(WordsWithin(words, from, to, k - 1),
                [words[k] EXCEPT !.start = @ - from, !.end = @ - from])
    ELSE WordsWithin(words, from, to, k - 1)

\* what the API hears in a file
HeardIn(file) ==
    IF file.original THEN source_words
    ELSE WordsWithin(source_words, file.chunk_start, file.chunk_end, Len(source_words))

\* outcomes of transcribe_single_chunk_with_groq(file, api_key)
GroqAnswers(file) ==
    IF backend = "exact"
    THEN {Return(transcribe_single_chunk_with_groq(HeardIn(file)))}
    ELSE {Raise("groq error")}
            \cup {Return(transcribe_single_chunk_with_groq(words)) : words \in AnyWords}

-----------------------------------------------------------------------------
(* transcribe_with_groq *)

Pending == [kind |-> "running", raised |-> FALSE, error |-> NoError, result |-> None]

GroqEnter ==
    /\ groq_pc = "enter"
    /\ IF ~file_exists
       THEN /\ groq_outcome' = Raise("stat error")
            /\ groq_pc' = "done"
            /\ UNCHANGED <<max_size_mb, chunks, chunk_calls>>
       ELSE IF file_size_mb > GroqLimitMb
       THEN /\ max_size_mb' = GroqLimitMb
            /\ chunks' = chunk_audio_for_groq(file_exists, file_size_mb, GroqLimitMb,
                                              duration_ms, pydub)
            /\ chunk_calls' = chunk_calls + 1
            /\ groq_pc' = IF Len(chunks') > 1 THEN "chunks" ELSE "single"
            /\ UNCHANGED groq_outcome
       ELSE /\ groq_pc' = "single"
            /\ UNCHANGED <<max_size_mb, chunks, chunk_calls, groq_outcome>>
    /\ UNCHANGED <<env, runvars, rankvars, tmpvars, postvars, cookievars, pydub, duration_ms, backend, source_words,
                   chunk_i, chunk_answers, chunk_results, merged_result>>

ProcessChunk ==
    /\ groq_pc = "chunks"
    /\ chunk_i <= Len(chunks)
    /\ \E answer \in GroqAnswers(chunks[chunk_i]) :
         /\ chunk_answers' = Append(chunk_answers, answer)
         /\ chunk_results' = IF answer.raised \/ Falsy(answer.result)
                             THEN chunk_results
                             ELSE Append(chunk_results, answer.result)
    /\ chunk_i' = chunk_i + 1
    /\ UNCHANGED <<env, runvars, rankvars, tmpvars, postvars, chunkvars, cookievars, backend, source_words, groq_pc,
                   merged_result, groq_outcome>>

MergeChunks ==
    /\ groq_pc = "chunks"
    /\ chunk_i > Len(chunks)
    /\ IF chunk_results # <<>>
       THEN /\ merged_result' = merge_chunked_transcriptions(chunk_results)
            /\ chunk_results' = ResultsAfterMerge(chunk_results)
            /\ IF ~Falsy(merged_result')
               THEN groq_outcome' = Return(merged_result') /\ groq_pc' = "done"
               ELSE groq_pc' = "single" /\ UNCHANGED groq_outcome
       ELSE /\ groq_pc' = "single"
            /\ UNCHANGED <<chunk_results, merged_result, groq_outcome>>
    /\ UNCHANGED <<env, runvars, rankvars, tmpvars, postvars, chunkvars, cookievars, backend, source_words, chunk_i,
                   chunk_answers>>

SingleFile ==
    /\ groq_pc = "single"
    /\ \E answer \in GroqAnswers(OriginalFile) : groq_outcome' = answer
    /\ groq_pc' = "done"
    /\ UNCHANGED <<env, runvars, rankvars, tmpvars, postvars, chunkvars, cookievars, backend, source_words, chunk_i,
                   chunk_answers, chunk_results, merged_result>>

GroqIdle(at) ==
    /\ groq_pc = at
    /\ chunk_i = 1
    /\ chunk_answers = <<>>
    /\ chunk_results = <<>>
    /\ merged_result = None
    /\ groq_outcome = Pending

-----------------------------------------------------------------------------
(* Cookie blobs.  A text is its lines; a line is a comment, a blank line or *)
(* a tab-separated record, of which only the number of fields and the      *)
(* fifth field matter.                                                     *)

MaxCookieLines == 2

MinFields == 7

CommentLine == [kind |-> "comment", fields |-> 1, expires_int |-> FALSE, expires |-> 0]

BlankLine == [kind |-> "blank", fields |-> 1, expires_int |-> FALSE, expires |-> 0]

\* a record one field short, with an expiration far ahead
ShortLine == [kind |-> "record", fields |-> MinFields - 1, expires_int |-> TRUE, expires |-> 3]

\* a record whose fifth field is not an integer
NonIntegerLine == [kind |-> "record", fields |-> MinFields, expires_int |-> FALSE, expires |-> 0]

\* expirations below, at and above 0 and the current time
Expirations == {-1, 0, 1, 2, 3}

CurrentTimes == {1, 2}

RecordLine(expires) ==
    [kind |-> "record", fields |-> MinFields, expires_int |-> TRUE, expires |-> expires]

CookieLines ==
    {CommentLine, BlankLine, ShortLine, NonIntegerLine}
        \cup {RecordLine(e) : e \in Expirations}

CookieTexts == UNION {[1..n -> CookieLines] : n \in 0..MaxCookieLines}

\* a str value: "b64" is the base64 of the lines, "plain" the lines
\* themselves, "plain_b64like" the lines themselves when they also happen to
\* be the base64 of some UTF-8 text
Str(encoding, lines) == [type |-> "str", encoding |-> encoding, lines |-> lines]

Bool(value) == [type |-> "bool", encoding |-> "none", lines |-> <<>>, value |-> value]

NoneValue == [type |-> "none", encoding |-> "none", lines |-> <<>>]

CookieBlobs ==
    {NoneValue}
        \cup {Str(encoding, lines) :
                encoding \in {"b64", "plain", "plain_b64like"}, lines \in CookieTexts}

\* a line without a tab
OpaqueLine == [kind |-> "record", fields |-> 1, expires_int |-> FALSE, expires |-> 0]

\* `not value`
NotTruthy(value) ==
    \/ value.type = "none"
    \/ value.type = "bool" /\ ~value.value
    \/ value.type = "str" /\ value.lines = <<>>

\* the lines a str shows when read as it is
LinesAsRead(value) ==
    IF value.encoding = "b64" THEN <<OpaqueLine>> ELSE value.lines

\* base64.b64decode(value).decode('utf-8')
b64decode(value) ==
    IF value.type # "str" THEN [raised |-> TRUE, value |-> NoneValue]
    ELSE IF value.encoding = "b64"
    THEN [raised |-> FALSE, value |-> Str("plain", value.lines)]
    ELSE IF value.encoding = "plain_b64like"
    THEN [raised |-> FALSE, value |-> Str("plain", <<OpaqueLine>>)]
    ELSE [raised |-> TRUE, value |-> NoneValue]

\* the test of one line in validate_cookies
CountsAsValid(line) ==
    /\ line.kind = "record"
    /\ line.fields >= MinFields
    /\ line.expires_int
    /\ line.expires > 0

validate_cookies(cookie_content) ==
    IF NotTruthy(cookie_content) THEN [raised |-> FALSE, value |-> FALSE]
    ELSE IF cookie_content.type # "str" THEN [raised |-> TRUE, value |-> FALSE]
    ELSE LET lines == LinesAsRead(cookie_content)
         IN  [raised |-> FALSE,
              value |-> \E j \in DOMAIN lines : CountsAsValid(lines[j])]

decode_cookie_content(cookie_content) ==
    IF NotTruthy(cookie_content) THEN Str("plain", <<>>)
    ELSE IF b64decode(cookie_content).raised THEN cookie_content
    ELSE b64decode(cookie_content).value

NoPath == [type |-> "none"]

PathOf(file) == [type |-> "path", file |-> file]

CookieFile(lines) == [lines |-> lines, mode |-> "0600"]

NoTrace == [validated |-> NoneValue, created |-> FALSE]

\* the value returned, the files of temp_path afterwards, and what was
\* validated and created on the way
create_cookie_file(cookie_content, files, dsk) ==
    IF NotTruthy(cookie_content)
    THEN [return |-> NoPath, files |-> files, trace |-> NoTrace]
    ELSE LET decoded_cookies == decode_cookie_content(cookie_content)
             validation == validate_cookies(decoded_cookies)
             validated == [validated |-> decoded_cookies, created |-> FALSE]
             cookie_file == CookieFile(LinesAsRead(decoded_cookies))
         IN  IF validation.raised \/ ~validation.value
             THEN [return |-> NoPath, files |-> files, trace |-> validated]
             ELSE IF dsk # "ok"
             THEN [return |-> NoPath, files |-> files, trace |-> validated]
             ELSE [return |-> PathOf(cookie_file),
                   files |-> files \cup {cookie_file},
                   trace |-> [validated EXCEPT !.created = TRUE]]

\* a cookie file left in temp_path, its only record expired by now
LeftoverFile == CookieFile(<<RecordLine(0)>>)

-----------------------------------------------------------------------------
(* setup_cookie_authentication and setup_youtube_authentication *)

SetupCookieAuthentication ==
    /\ auth_pc = "call"
    /\ LET created == create_cookie_file(cookie_env, temp_files, disk)
       IN  IF ~NotTruthy(cookie_env) /\ created.return # NoPath
           THEN /\ auth_return' = created.return
                /\ temp_files' = created.files
                /\ auth_trace' = created.trace
           ELSE /\ auth_trace' = IF NotTruthy(cookie_env) THEN NoTrace ELSE created.trace
                /\ UNCHANGED temp_files
                /\ IF temp_files # {}
                   THEN \E existing \in temp_files : auth_return' = PathOf(existing)
                   ELSE auth_return' = NoPath
    /\ auth_pc' = "done"
    /\ UNCHANGED <<env, runvars, rankvars, tmpvars, postvars, chunkvars, groqvars, cookie_env, current_time,
                   disk>>

SetupYoutubeAuthentication ==
    /\ auth_pc = "call"
    /\ IF NotTruthy(cookie_env) \/ b64decode(cookie_env).raised
       THEN /\ auth_return' = NoPath
            /\ auth_trace' = NoTrace
            /\ UNCHANGED temp_files
       ELSE LET cookie_content == b64decode(cookie_env).value
                valid_cookies == validate_cookies(cookie_content)
                created == create_cookie_file(Bool(valid_cookies.value), temp_files, disk)
            IN  IF valid_cookies.raised \/ ~valid_cookies.value
                THEN /\ auth_return' = NoPath
                     /\ auth_trace' = [validated |-> cookie_content, created |-> FALSE]
                     /\ UNCHANGED temp_files
                ELSE /\ auth_return' = created.return
                     /\ auth_trace' = [validated |-> cookie_content,
                                       created |-> created.trace.created]
                     /\ temp_files' = created.files
    /\ auth_pc' = "done"
    /\ UNCHANGED <<env, runvars, rankvars, tmpvars, postvars, chunkvars, groqvars, cookie_env, current_time,
                   disk>>

TmpIdle ==
    /\ cleanups = <<>>
    /\ temp_dir = {}
    /\ artifacts = {}

CookieIdle ==
    /\ cookie_env = NoneValue
    /\ current_time = 1
    /\ disk = "ok"
    /\ temp_files = {}
    /\ auth_pc = "idle"
    /\ auth_trace = NoTrace
    /\ auth_return = NoPath

-----------------------------------------------------------------------------
(* generate_final_results and format_timestamp.  Times are in milliseconds, *)
(* confidences in thousandths.                                              *)

MaxFinalSegments == 2
MaxFinalWords == 2

MaxGroupWords == 10
MaxGroupMs == 5000

\* str.strip() on the texts the backends hand over
Strip(text) ==
    CASE text = " la" -> "la"
      [] text = " la " -> "la"
      [] text = " " -> ""
      [] text = "hello " -> "hello"
      [] OTHER -> text

\* word_data.get("probability", word_data.get("score", 0.0))
Confidence(word_data) == Get(word_data, "probability", Get(word_data, "score", 0))

\* the entry appended to `words` for one word of a segment
NormalizedWord(word_data) ==
    [word |-> Strip(Get(word_data, "word", "")),
     start |-> Get(word_data, "start", 0),
     end |-> Get(word_data, "end", 0),
     confidence |-> Confidence(word_data)]

\* the words one segment contributes: its own, or its text as one word
WordsOfSegment(segment) ==
    LET segment_words == Get(segment, "words", <<>>)
        segment_text == Strip(Get(segment, "text", ""))
    IN  IF segment_words # <<>>
        THEN [j \in DOMAIN segment_words |-> NormalizedWord(segment_words[j])]
        ELSE IF segment_text # ""
        THEN <<[word |-> segment_text,
                start |-> Get(segment, "start", 0),
                end |-> Get(segment, "end", 0),
                confidence |-> 1000 - Get(segment, "no_speech_prob", 0)]>>
        ELSE <<>>

\* the loop over segments: words after the first k segments
RECURSIVE ExtractedWords(_, _)
ExtractedWords(segments, k) ==
    IF k = 0 THEN <<>>
    ELSE ExtractedWords(segments, k - 1) \o WordsOfSegment(segments[k])

\* current_start = None
NoStart == -1

\* `not current_start`
Unset(current_start) == current_start = NoStart \/ current_start = 0

\* a group that is only closed when full
ClosesWhenFull(size, elapsed, is_last) == size >= MaxGroupWords

\* len(current_group) >= 10 or (word["end"] - current_start) >= 5.0 or i == len(words) - 1
ClosesGroup(size, elapsed, is_last) ==
    \/ size >= MaxGroupWords
    \/ elapsed >= MaxGroupMs
    \/ is_last

\* " ".join(current_group).strip(): the texts joined by single spaces, with
\* the spaces at both ends removed
RECURSIVE StripJoined(_)
StripJoined(group) ==
    IF group = <<>> THEN <<>>
    ELSE IF Head(group) = "" THEN StripJoined(Tail(group))
    ELSE IF group[Len(group)] = "" THEN StripJoined(SubSeq(group, 1, Len(group) - 1))
    ELSE group

\* the loop over words, from word i on
RECURSIVE GroupWords(_, _, _, _, _)
GroupWords(words, i, groups, current_group, current_start) ==
    IF i > Len(words) THEN groups
    ELSE LET word == words[i]
             started == IF Unset(current_start) THEN word.start ELSE current_start
             group == Append(current_group, word.word)
         IN  IF ClosesGroup(Len(group), word.end - started, i = Len(words))
             THEN GroupWords(words, i + 1,
                             Append(groups, [text |-> StripJoined(group),
                                             start |-> started,
                                             end |-> word.end,
                                             size |-> Len(group)]),
                             <<>>, NoStart)
             ELSE GroupWords(words, i + 1, groups, group, started)

\* times whose fraction of a second, taken as a binary float and multiplied
\* by 1000, falls just under a whole number
LosesMillisecond ==
    {1200, 2300, 2400, 3300, 3900, 4600, 4800, 5100, 6300, 6600, 7800,
     8100, 8700, 9200, 9600, 12600, 15600, 18400, 20700, 29900, 33300,
     36300, 36800, 39300, 41400, 42300, 45300, 48300, 51300, 52900,
     54300, 57300, 59800, 60300, 63300, 66300, 66600, 69300, 69600,
     71300, 72300, 72600, 73600, 75300, 75600, 78300, 78600, 81300,
     81600, 82800, 84300, 84600, 85100, 87300, 87600, 3599700}

\* int((seconds % 1) * 1000)
Millis(ms) == IF ms \in LosesMillisecond THEN (ms % 1000) - 1 ELSE ms % 1000

\* digits written by the format spec 0<width>d
RECURSIVE Digits(_, _)
Digits(n, width) ==
    IF n < 10 THEN IF width > 1 THEN width ELSE 1
    ELSE 1 + Digits(n \div 10, width - 1)

\* the fields of "HH:MM:SS,mmm" and the number of digits each is written with
format_timestamp(ms) ==
    LET hours == ms \div 3600000
        minutes == (ms % 3600000) \div 60000
        secs == (ms % 60000) \div 1000
        millis == Millis(ms)
    IN  [hours |-> hours, minutes |-> minutes, secs |-> secs, millis |-> millis,
         widths |-> <<Digits(hours, 2), Digits(minutes, 2), Digits(secs, 2),
                      Digits(millis, 3)>>]

\* the blocks of the SRT text, one per group
SrtBlocks(groups) ==
    [i \in DOMAIN groups |->
        [index |-> i,
         start_time |-> format_timestamp(groups[i].start),
         end_time |-> format_timestamp(groups[i].end),
         text |-> groups[i].text]]

RECURSIVE MaxEnd(_, _)
MaxEnd(words, k) ==
    IF k = 1 THEN words[1].end ELSE Max(MaxEnd(words, k - 1), words[k].end)

RECURSIVE SumConfidence(_, _)
SumConfidence(words, k) ==
    IF k = 0 THEN 0 ELSE SumConfidence(words, k - 1) + words[k].confidence

\* max([w["end"] for w in words]) if words else 0
TotalDuration(words) == IF words # <<>> THEN MaxEnd(words, Len(words)) ELSE 0

\* sum(confidences) / len(words) if words else 0, as a fraction
MeanConfidence(words) ==
    IF words # <<>>
    THEN [num |-> SumConfidence(words, Len(words)), den |-> Len(words)]
    ELSE [num |-> 0, den |-> 1]

\* a function that gives up on a result without segments
RaisesOnNoSegments(data) == data = None \/ Get(data, "segments", <<>>) = <<>>

\* aligned_data.get on None
FinalRaises(data) == data = None

\* word_groups once the loop over words is over
WordGroups(data) ==
    IF FinalRaises(data) THEN <<>>
    ELSE GroupWords(ExtractedWords(Get(data, "segments", <<>>),
                                   Len(Get(data, "segments", <<>>))),
                    1, <<>>, <<>>, NoStart)

generate_final_results(data) ==
    IF FinalRaises(data) THEN Raised("AttributeError")
    ELSE LET words == ExtractedWords(Get(data, "segments", <<>>),
                                     Len(Get(data, "segments", <<>>)))
         IN  Returned([words |-> words,
                       srt |-> SrtBlocks(WordGroups(data)),
                       plain |-> [j \in DOMAIN words |-> words[j].word],
                       metadata |-> [duration |-> TotalDuration(words),
                                     wordCount |-> Len(words),
                                     language |-> Get(data, "language", "unknown"),
                                     confidence |-> MeanConfidence(words)]])

\* results as the backends shape them

SlotMs == 2300

\* words as the local model yields them: text with its blanks, a probability
WordKinds ==
    {[word |-> "la", probability |-> 900],
     [word |-> " la ", probability |-> 500],
     [word |-> " ", probability |-> 100]}

WordRows == UNION {[1..n -> WordKinds] : n \in 1..MaxFinalWords}

\* a segment whose words list is empty carries its text only
BareTexts == {"hello ", " "}

\* the s-th segment of a result holds the slots (s - 1) * MaxFinalWords + k
SlotStart(s, k) == ((s - 1) * MaxFinalWords + (k - 1)) * SlotMs

TimedWords(row, s) ==
    [k \in DOMAIN row |->
        [word |-> row[k].word,
         start |-> SlotStart(s, k),
         end |-> SlotStart(s, k) + SlotMs,
         probability |-> row[k].probability]]

SegmentShapes ==
    {[kind |-> "words", row |-> row] : row \in WordRows}
        \cup {[kind |-> "text", text |-> text] : text \in BareTexts}

\* a segment as transcribe_with_faster_whisper builds it
LocalSegment(shape, s) ==
    IF shape.kind = "words"
    THEN [id |-> s - 1,
          start |-> SlotStart(s, 1),
          end |-> SlotStart(s, Len(shape.row)) + SlotMs,
          text |-> [k \in DOMAIN shape.row |-> shape.row[k].word],
          no_speech_prob |-> 100,
          words |-> TimedWords(shape.row, s)]
    ELSE [id |-> s - 1,
          start |-> SlotStart(s, 1),
          end |-> SlotStart(s, 1) + SlotMs,
          text |-> shape.text,
          no_speech_prob |-> 200,
          words |-> <<>>]

LocalShaped ==
    {[segments |-> [s \in DOMAIN shapes |-> LocalSegment(shapes[s], s)],
      language |-> "en",
      duration |-> Len(shapes) * MaxFinalWords * SlotMs] :
        shapes \in UNION {[1..n -> SegmentShapes] : n \in 0..MaxFinalSegments}}

\* n words of text " la", WordMs each, the first at `first`, one every `step`
SungWords(n, first, step) ==
    [j \in 1..n |-> [word |-> " la",
                     start |-> first + (j - 1) * step,
                     end |-> first + (j - 1) * step + WordMs]]

\* word counts around the group size, back to back and spaced, from the
\* start of the file and later, up to the last second of a minute, of an
\* hour and of the hundredth hour
HostedShaped ==
    {transcribe_single_chunk_with_groq(SungWords(n, first, step)) :
        n \in {0, 1, 2, MaxGroupWords, MaxGroupWords + 1, 2 * MaxGroupWords + 3},
        first \in {0, WordMs},
        step \in {WordMs, 3000}}
      \cup {transcribe_single_chunk_with_groq(SungWords(1, first, WordMs)) :
                first \in {59700, 3599700, 359999400}}

\* two chunk results merged by transcribe_with_groq: a full segment, then a
\* chunk whose only word lies in its first second or after it
MergedShaped ==
    {merge_chunked_transcriptions(
        <<transcribe_single_chunk_with_groq(SungWords(MaxGroupWords, 0, WordMs)),
          transcribe_single_chunk_with_groq(SungWords(1, first, WordMs))>>) :
        first \in {0, OverlapCompensationMs}}

AlignedData == LocalShaped \cup HostedShaped \cup MergedShaped \cup {None, EmptyDict}

FinalIdle ==
    /\ aligned_data = None
    /\ word_groups = <<>>
    /\ final_result = Running
    /\ final_pc = "idle"

-----------------------------------------------------------------------------
(* separate_vocals_conservative *)

TimeoutSeconds == 300

\* how long the demucs process runs, in seconds
RunSeconds == {1, TimeoutSeconds, TimeoutSeconds + 1}

ReturnCodes == {0, 1, -9}

\* subprocess.run(cmd, ..., timeout=300): the program is started or not,
\* runs for some time and exits with a code
DemucsRuns ==
    {[launch |-> l, seconds |-> s, returncode |-> c] :
        l \in {"started", "not_found"}, s \in RunSeconds, c \in ReturnCodes}

VocalsFile == "demucs_output/htdemucs/stem/vocals.wav"

\* a timeout that is not caught
TimeoutPropagates(run) == Raised("TimeoutExpired")

\* except subprocess.TimeoutExpired
OnTimeout(run) == Returned(NoPath)

\* except Exception
OnDemucsError(run) == Returned(NoPath)

separate_vocals_conservative(run, exists) ==
    IF run.launch = "not_found" THEN OnDemucsError(run)
    ELSE IF run.seconds > TimeoutSeconds THEN OnTimeout(run)
    ELSE IF run.returncode # 0 THEN Returned(NoPath)
    ELSE IF exists THEN Returned(PathOf(VocalsFile))
    ELSE Returned(NoPath)

VocalsIdle ==
    /\ demucs = [launch |-> "started", seconds |-> 1, returncode |-> 0]
    /\ vocals_exists = FALSE
    /\ vocals_pc = "idle"
    /\ vocals_return = Running

-----------------------------------------------------------------------------
(* align_with_whisperx *)

WhisperxStates == {"ok", "import_error", "load_audio_error", "load_model_error",
                   "align_error"}

\* what whisperx.align answers: the segments with their words aligned, and
\* the words on their own
Aligned(data) ==
    [segments |-> data.segments, word_segments |-> SumWords(data.segments)]

\* a step inside the try block raises
AlignmentFails(data, wx, t) ==
    \/ wx # "ok"
    \/ t \in {"import_error", "query_error"}
    \/ data = None
    \/ "segments" \notin DOMAIN data

\* a failure that is not caught
AlignmentPropagates(data) == Raised("alignment failed")

\* except Exception: return transcription_result
OnAlignmentFailure(data) == Returned(data)

align_with_whisperx(data, wx, t) ==
    IF AlignmentFails(data, wx, t) THEN OnAlignmentFailure(data)
    ELSE Returned(Aligned(data))

AlignIdle ==
    /\ whisperx = "ok"
    /\ align_input = None
    /\ align_pc = "idle"
    /\ align_return = Running

-----------------------------------------------------------------------------
(* safe_gpu_memory_cleanup, cleanup_temp_files and the signal handler *)

ExitBase == 128

\* SIGHUP, SIGINT, SIGTERM
HandledSignals == {1, 2, 15}

\* glob and unlink under the working directory work, or one of them raises
TempFsStates == {"ok", "glob_error", "unlink_error"}

\* a cleanup that lets the failure of torch through
GpuCleanupPropagates(t) ==
    IF t \in {"import_error", "query_error"}
    THEN [raised |-> TRUE, done |-> "nothing"]
    ELSE [raised |-> FALSE, done |-> "cleaned"]

\* everything is inside try / except Exception
safe_gpu_memory_cleanup(t) ==
    CASE t = "cuda" -> [raised |-> FALSE, done |-> "cache emptied"]
      [] t = "no_cuda" -> [raised |-> FALSE, done |-> "nothing"]
      [] OTHER -> [raised |-> FALSE, done |-> "warning"]

\* the inner and the outer try / except Exception
cleanup_temp_files(fs) ==
    CASE fs = "ok" -> [raised |-> FALSE, done |-> "removed"]
      [] fs = "unlink_error" -> [raised |-> FALSE, done |-> "warning"]
      [] OTHER -> [raised |-> FALSE, done |-> "error printed"]

\* signal_handler(signum, frame): the cleanup calls made inside its try, and
\* the argument of sys.exit
signal_handler(sig, t, fs) ==
    LET gpu == safe_gpu_memory_cleanup(t)
        calls == IF gpu.raised
                 THEN <<"safe_gpu_memory_cleanup">>
                 ELSE <<"safe_gpu_memory_cleanup", "cleanup_temp_files">>
    IN  [calls |-> calls,
         caught |-> gpu.raised \/ cleanup_temp_files(fs).raised,
         status |-> ExitBase + sig]



SignalIdle ==
    /\ signal_pc = "idle"
    /\ signum = 0
    /\ temp_fs = "ok"
    /\ handler_trace = <<>>
    /\ exit_status = 0

-----------------------------------------------------------------------------
(* with_error_recovery *)

MaxRetries == 3

InitialDelayMs == 1000

\* what one invocation of the wrapped function does
FuncOutcomes ==
    {Return([answer |-> a]) : a \in {1, 2}} \cup {Raise("first error"), Raise("other error")}

\* a wrapper that retries after every failure
AlwaysRetry(n) == TRUE

\* if attempt < max_retries - 1
RetriesLeft(n) == n < MaxRetries - 1

\* one entry of the history of a call: an invocation of func, the cleanup of
\* line 576 or the sleep of line 580
Step(event, outcome, ms) == [event |-> event, outcome |-> outcome, seconds |-> ms]

RetryIdle ==
    /\ retry_pc = "idle"
    /\ attempt = 0
    /\ retry_delay = InitialDelayMs
    /\ retry_trace = <<>>
    /\ retry_outcome = Running

GuardIdle ==
    /\ SignalIdle
    /\ RetryIdle

PostIdle ==
    /\ FinalIdle
    /\ VocalsIdle
    /\ AlignIdle
    /\ GuardIdle

-----------------------------------------------------------------------------
(* The run *)

NoRanking == [raised |-> FALSE, selected |-> NoService, services |-> <<>>]

EnvRecord ==
    [file_exists |-> file_exists, file_size_mb |-> file_size_mb,
     groq_key |-> groq_key, openai_key |-> openai_key, torch |-> torch]

NoEnv == [file_exists |-> FALSE]

RunIdle(at) ==
    /\ pc = at
    /\ cuda_available = FALSE
    /\ selected_service = NoService
    /\ available_services = <<>>
    /\ chain_idx = 1
    /\ transcription_result = None
    /\ used_service = NoService
    /\ now = 0
    /\ attempts = <<>>
    /\ log_entry = NoEntry
    /\ attempt_log = <<>>
    /\ chain_return = None
    /\ orch_return = None
    /\ raised = NoError
    /\ run_outcome = Running

RankIdle ==
    /\ rank_calls = 0
    /\ rank_env = NoEnv
    /\ rank_result = NoRanking

Init ==
    /\ file_exists = FALSE
    /\ file_size_mb \in RunFileSizesMb
    /\ groq_key \in BOOLEAN
    /\ openai_key \in BOOLEAN
    /\ torch \in TorchStates
    /\ RunIdle("download")
    /\ RankIdle
    /\ ChunkIdle
    /\ backend = "any"
    /\ source_words = <<>>
    /\ GroqIdle("idle")
    /\ CookieIdle
    /\ TmpIdle
    /\ PostIdle

Next ==
    \/ Download
    \/ OrchestratorEnter
    \/ ChainSetup
    \/ TryService
    \/ SkipService
    \/ ChainFinish
    \/ OrchestratorValidate
    \/ OrchestratorExcept
    \/ GenerateFinal
    \/ RunExcept

Spec == Init /\ [][Next]_vars

\* runs on one machine and one file, with or without each key
InitLive ==
    /\ Init
    /\ torch = "cuda"
    /\ file_size_mb = GroqLimitMb

\* a run whose steps are not held back: the function body runs on
SpecLive == InitLive /\ [][Next]_vars /\ WF_vars(Next)

-----------------------------------------------------------------------------
(* Ranking called on its own, between changes of the runtime state *)

RankCall ==
    /\ rank_calls < MaxRankCalls
    /\ rank_result' = select_optimal_transcription_service(
                          file_exists, file_size_mb, torch, groq_key, openai_key)
    /\ rank_env' = EnvRecord
    /\ rank_calls' = rank_calls + 1
    /\ UNCHANGED <<env, runvars, auxvars>>

\* one part of the runtime state changes: the file, a key, the accelerator
EnvChange ==
    /\ \/ /\ file_exists' = ~file_exists
          /\ UNCHANGED <<file_size_mb, groq_key, openai_key, torch>>
       \/ /\ \E sz \in FileSizesMb \ {file_size_mb} : file_size_mb' = sz
          /\ UNCHANGED <<file_exists, groq_key, openai_key, torch>>
       \/ /\ groq_key' = ~groq_key
          /\ UNCHANGED <<file_exists, file_size_mb, openai_key, torch>>
       \/ /\ openai_key' = ~openai_key
          /\ UNCHANGED <<file_exists, file_size_mb, groq_key, torch>>
       \/ /\ \E t \in TorchStates \ {torch} : torch' = t
          /\ UNCHANGED <<file_exists, file_size_mb, groq_key, openai_key>>
    /\ UNCHANGED <<runvars, rankvars, auxvars>>

InitRank ==
    /\ file_exists \in BOOLEAN
    /\ file_size_mb \in FileSizesMb
    /\ groq_key \in BOOLEAN
    /\ openai_key \in BOOLEAN
    /\ torch \in TorchStates
    /\ RunIdle("idle")
    /\ RankIdle
    /\ ChunkIdle
    /\ backend = "any"
    /\ source_words = <<>>
    /\ GroqIdle("idle")
    /\ CookieIdle
    /\ TmpIdle
    /\ PostIdle

NextRank ==
    \/ RankCall
    \/ EnvChange

SpecRank == InitRank /\ [][NextRank]_vars

-----------------------------------------------------------------------------
(* The chunker called on its own *)

ChunkCall ==
    /\ chunk_calls = 0
    /\ \E max_mb \in {GroqLimitMb, OpenAILimitMb} :
         /\ max_size_mb' = max_mb
         /\ chunks' = chunk_audio_for_groq(file_exists, file_size_mb, max_mb,
                                           duration_ms, pydub)
    /\ chunk_calls' = chunk_calls + 1
    /\ UNCHANGED <<env, runvars, rankvars, tmpvars, postvars, groqvars, cookievars, pydub, duration_ms>>

InitChunk ==
    /\ file_exists \in BOOLEAN
    /\ file_size_mb \in FileSizesMb
    /\ groq_key = FALSE
    /\ openai_key = FALSE
    /\ torch = "no_cuda"
    /\ RunIdle("idle")
    /\ RankIdle
    /\ pydub \in PydubStates
    /\ duration_ms \in DurationsMs
    /\ max_size_mb = GroqLimitMb
    /\ chunks = <<>>
    /\ chunk_calls = 0
    /\ backend = "any"
    /\ source_words = <<>>
    /\ GroqIdle("idle")
    /\ CookieIdle
    /\ TmpIdle
    /\ PostIdle

NextChunk == ChunkCall

SpecChunk == InitChunk /\ [][NextChunk]_vars

-----------------------------------------------------------------------------
(* transcribe_with_groq on an asset over the limit, the API answering each *)
(* chunk with any word list or an error                                    *)

InitMerge ==
    /\ file_exists = TRUE
    /\ file_size_mb = GroqLimitMb + 1
    /\ groq_key = TRUE
    /\ openai_key = FALSE
    /\ torch = "no_cuda"
    /\ RunIdle("idle")
    /\ RankIdle
    /\ pydub \in {"ok", "load_error"}
    /\ duration_ms \in {n * ChunkDurationMs : n \in 1..MaxChunks}
    /\ max_size_mb = GroqLimitMb
    /\ chunks = <<>>
    /\ chunk_calls = 0
    /\ backend = "any"
    /\ source_words = <<>>
    /\ GroqIdle("enter")
    /\ CookieIdle
    /\ TmpIdle
    /\ PostIdle

NextGroq ==
    \/ GroqEnter
    \/ ProcessChunk
    \/ MergeChunks
    \/ SingleFile

SpecMerge == InitMerge /\ [][NextGroq]_vars

-----------------------------------------------------------------------------
(* transcribe_with_groq on an asset over the limit, the API answering each *)
(* file with exactly the words spoken in it                                *)

InitOverlap ==
    /\ file_exists = TRUE
    /\ file_size_mb \in {GroqLimitMb, GroqLimitMb + 1}
    /\ groq_key = TRUE
    /\ openai_key = FALSE
    /\ torch = "no_cuda"
    /\ RunIdle("idle")
    /\ RankIdle
    /\ pydub = "ok"
    /\ duration_ms \in {ChunkDurationMs, 2 * ChunkDurationMs, 2 * ChunkDurationMs + 1}
    /\ max_size_mb = GroqLimitMb
    /\ chunks = <<>>
    /\ chunk_calls = 0
    /\ backend = "exact"
    /\ source_words \in {ws \in Sources : \A j \in DOMAIN ws : ws[j].end <= duration_ms}
    /\ GroqIdle("enter")
    /\ CookieIdle
    /\ TmpIdle
    /\ PostIdle

SpecOverlap == InitOverlap /\ [][NextGroq]_vars

\* the same calls on assets whose every chunk ends with a word
InitDrift ==
    /\ file_exists = TRUE
    /\ file_size_mb \in {GroqLimitMb, GroqLimitMb + 1}
    /\ groq_key = TRUE
    /\ openai_key = FALSE
    /\ torch = "no_cuda"
    /\ RunIdle("idle")
    /\ RankIdle
    /\ pydub = "ok"
    /\ duration_ms \in {n * ChunkDurationMs - d : n \in 2..MaxChunks, d \in {0, 500}}
    /\ max_size_mb = GroqLimitMb
    /\ chunks = <<>>
    /\ chunk_calls = 0
    /\ backend = "exact"
    /\ source_words \in
         {SungToTheEnd(Ceil(duration_ms, ChunkDurationMs), duration_ms, picked) :
             picked \in SUBSET (0..(Ceil(duration_ms, ChunkDurationMs) - 1))}
    /\ GroqIdle("enter")
    /\ CookieIdle
    /\ TmpIdle
    /\ PostIdle

SpecDrift == InitDrift /\ [][NextGroq]_vars

-----------------------------------------------------------------------------
(* One authentication setup, for every blob, clock and state of temp_path *)

InitCookies ==
    /\ EnvIdle
    /\ RunIdle("idle")
    /\ RankIdle
    /\ ChunkIdle
    /\ backend = "any"
    /\ source_words = <<>>
    /\ GroqIdle("idle")
    /\ cookie_env \in CookieBlobs
    /\ current_time \in CurrentTimes
    /\ disk \in {"ok", "write_error"}
    /\ temp_files \in {{}, {LeftoverFile}}
    /\ auth_pc = "call"
    /\ auth_trace = NoTrace
    /\ auth_return = NoPath
    /\ TmpIdle
    /\ PostIdle

NextCookies ==
    \/ SetupCookieAuthentication
    \/ SetupYoutubeAuthentication

SpecCookies == InitCookies /\ [][NextCookies]_vars

-----------------------------------------------------------------------------
(* generate_final_results called on its own *)

GenerateFinalResults ==
    /\ final_pc = "call"
    /\ word_groups' = WordGroups(aligned_data)
    /\ final_result' = generate_final_results(aligned_data)
    /\ final_pc' = "done"
    /\ UNCHANGED <<env, runvars, rankvars, othervars, tmpvars, stagevars, guardvars,
                   aligned_data>>

InitFinal ==
    /\ EnvIdle
    /\ RunIdle("idle")
    /\ RankIdle
    /\ ChunkIdle
    /\ backend = "any"
    /\ source_words = <<>>
    /\ GroqIdle("idle")
    /\ CookieIdle
    /\ TmpIdle
    /\ VocalsIdle
    /\ AlignIdle
    /\ GuardIdle
    /\ aligned_data \in AlignedData
    /\ word_groups = <<>>
    /\ final_result = Running
    /\ final_pc = "call"

NextFinal == GenerateFinalResults

SpecFinal == InitFinal /\ [][NextFinal]_vars

-----------------------------------------------------------------------------
(* The optional stages called on their own *)

SeparateVocals ==
    /\ vocals_pc = "call"
    /\ vocals_return' = separate_vocals_conservative(demucs, vocals_exists)
    /\ vocals_pc' = "done"
    /\ UNCHANGED <<env, runvars, rankvars, othervars, tmpvars, finalvars, guardvars, alignvars,
                   demucs, vocals_exists>>

AlignWithWhisperx ==
    /\ align_pc = "call"
    /\ align_return' = align_with_whisperx(align_input, whisperx, torch)
    /\ align_pc' = "done"
    /\ UNCHANGED <<env, runvars, rankvars, othervars, tmpvars, finalvars, guardvars, vocalsvars,
                   whisperx, align_input>>

InitStages ==
    /\ file_exists = TRUE
    /\ file_size_mb = GroqLimitMb
    /\ groq_key = FALSE
    /\ openai_key = FALSE
    /\ torch \in TorchStates
    /\ RunIdle("idle")
    /\ RankIdle
    /\ ChunkIdle
    /\ backend = "any"
    /\ source_words = <<>>
    /\ GroqIdle("idle")
    /\ CookieIdle
    /\ TmpIdle
    /\ FinalIdle
    /\ GuardIdle
    /\ demucs \in DemucsRuns
    /\ vocals_exists \in BOOLEAN
    /\ vocals_pc = "call"
    /\ vocals_return = Running
    /\ whisperx \in WhisperxStates
    /\ align_input \in LocalResults \cup {None, EmptyDict}
    /\ align_pc = "call"
    /\ align_return = Running

NextStages ==
    \/ SeparateVocals
    \/ AlignWithWhisperx

SpecStages == InitStages /\ [][NextStages]_vars

-----------------------------------------------------------------------------
(* The signal handler and the retry wrapper on their own *)

\* setup_signal_handlers(): signal.signal raises outside the main thread
SetupSignalHandlers ==
    /\ signal_pc = "setup"
    /\ \E main_thread \in BOOLEAN :
         signal_pc' = IF main_thread THEN "installed" ELSE "failed"
    /\ UNCHANGED <<env, runvars, rankvars, othervars, tmpvars, finalvars, stagevars,
                   signum, temp_fs, handler_trace, exit_status,
                   retry_pc, attempt, retry_delay, retry_trace, retry_outcome>>

\* a handled signal arrives and signal_handler runs to its sys.exit
SignalHandler ==
    /\ signal_pc = "installed"
    /\ \E sig \in HandledSignals :
         /\ signum' = sig
         /\ handler_trace' = signal_handler(sig, torch, temp_fs).calls
         /\ exit_status' = signal_handler(sig, torch, temp_fs).status
    /\ signal_pc' = "exited"
    /\ UNCHANGED <<env, runvars, rankvars, othervars, tmpvars, finalvars, stagevars,
                   temp_fs, retry_pc, attempt, retry_delay, retry_trace, retry_outcome>>

\* one iteration of `for attempt in range(max_retries)`; the loop left
\* without a return or a raise falls through to `return None`
RetryIteration ==
    /\ retry_pc = "loop"
    /\ \E outcome \in FuncOutcomes :
         IF ~outcome.raised
         THEN /\ retry_trace' = Append(retry_trace, Step("invoke", outcome, 0))
              /\ retry_outcome' = Returned(outcome.result)
              /\ retry_pc' = "done"
              /\ UNCHANGED <<attempt, retry_delay>>
         ELSE IF RetriesLeft(attempt)
         THEN /\ retry_trace' = retry_trace \o <<Step("invoke", outcome, 0),
                                               Step("safe_gpu_memory_cleanup", Return(None), 0),
                                               Step("sleep", Return(None), retry_delay)>>
              /\ retry_delay' = retry_delay * 2
              /\ attempt' = attempt + 1
              /\ IF attempt + 1 < MaxRetries
                 THEN retry_pc' = "loop" /\ UNCHANGED retry_outcome
                 ELSE retry_pc' = "done" /\ retry_outcome' = Returned(None)
         ELSE /\ retry_trace' = Append(retry_trace, Step("invoke", outcome, 0))
              /\ retry_outcome' = Raised(outcome.error)
              /\ retry_pc' = "done"
              /\ UNCHANGED <<attempt, retry_delay>>
    /\ UNCHANGED <<env, runvars, rankvars, othervars, tmpvars, finalvars, stagevars,
                   signal_pc, signum, temp_fs, handler_trace, exit_status>>

InitGuards ==
    /\ file_exists = TRUE
    /\ file_size_mb = GroqLimitMb
    /\ groq_key = FALSE
    /\ openai_key = FALSE
    /\ torch \in TorchStates
    /\ RunIdle("idle")
    /\ RankIdle
    /\ ChunkIdle
    /\ backend = "any"
    /\ source_words = <<>>
    /\ GroqIdle("idle")
    /\ CookieIdle
    /\ TmpIdle
    /\ FinalIdle
    /\ VocalsIdle
    /\ AlignIdle
    /\ signal_pc = "setup"
    /\ signum = 0
    /\ temp_fs \in TempFsStates
    /\ handler_trace = <<>>
    /\ exit_status = 0
    /\ retry_pc = "loop"
    /\ attempt = 0
    /\ retry_delay = InitialDelayMs
    /\ retry_trace = <<>>
    /\ retry_outcome = Running

NextGuards ==
    \/ SetupSignalHandlers
    \/ SignalHandler
    \/ RetryIteration

SpecGuards == InitGuards /\ [][NextGuards]_vars

-----------------------------------------------------------------------------
(* Properties of the fallback engine *)

Last(seq) == seq[Len(seq)]

AttemptedServices == {attempts[i].service : i \in DOMAIN attempts}

\* C1: once an attempt's result passes validation no further backend is
\* invoked in the run, and what transcribe_with_fallback_chain returns is
\* exactly the result that attempt produced.
C1_FirstValidResultWins ==
    [][ /\ (used_service # NoService => attempts' = attempts)
        /\ (chain_return' # None =>
              /\ attempts' # <<>>
              /\ Last(attempts').accepted
              /\ Last(attempts').service = used_service'
              /\ chain_return' = Last(attempts').result
              /\ \A i \in 1..(Len(attempts') - 1) : ~attempts'[i].accepted) ]_vars

\* a valid result from a backend that is not the last of the chain was
\* returned after an earlier attempt had failed
C1_Witness ==
    /\ chain_return # None
    /\ Len(attempts) >= 2
    /\ used_service # "faster_whisper_cpu"

\* C2: a run that ends in the all-backends-failed error attempted every
\* backend of the ranked list, the unaccelerated local backend included.
C2_AllFailedOnlyAfterAllTried ==
    raised = AllFailedMsg =>
        /\ ServiceNames(available_services) \subseteq AttemptedServices
        /\ "faster_whisper_cpu" \in AttemptedServices

\* C3: an attempt's result is accepted iff it has segments, at least one word
\* and a positive duration; every result the chain and the orchestrator
\* return meets the three conditions.
MeetsValidityRule(r) ==
    /\ r # None
    /\ r.segments # <<>>
    /\ \E i \in DOMAIN r.segments : r.segments[i].words # <<>>
    /\ r.duration > 0

C3_ValidityGate ==
    /\ \A i \in DOMAIN attempts :
         ~attempts[i].raised =>
            (attempts[i].accepted <=> MeetsValidityRule(attempts[i].result))
    /\ (chain_return # None => MeetsValidityRule(chain_return))
    /\ (orch_return # None => MeetsValidityRule(orch_return))

\* the orchestrator returned a result in a run that also rejected a result
\* with segments
C3_Witness ==
    /\ orch_return # None
    /\ \E i \in DOMAIN attempts :
         /\ ~attempts[i].raised
         /\ ~attempts[i].accepted
         /\ attempts[i].result.segments # <<>>

\* C4: a backend the prober found ineligible is never attempted; for a 30MB
\* asset with an accelerator the first attempt is the accelerated backend.
C4_IneligibleNeverAttempted ==
    /\ AttemptedServices \subseteq ServiceNames(available_services)
    /\ (attempts # <<>> /\ file_size_mb = 30 /\ cuda_available =>
            attempts[1].service = "faster_whisper_gpu")

\* C5: after an attempt that raised and after an attempt whose result was
\* invalid alike, the engine goes on to the next backend: while no result has
\* been accepted, no entry of the chain is passed over.
C5_FailuresTreatedAlike ==
    [][ (pc = "chain_loop" /\ used_service = NoService) =>
            Len(attempts') = Len(attempts) + 1 ]_vars

\* C6: the run's attempt log holds one entry per attempt made, in attempt
\* order, each with the backend name, audio size, accelerator flag, success
\* flag and elapsed time; success is set only on the accepted attempt.
C6_AttemptLogComplete ==
    /\ Len(attempt_log) = Len(attempts)
    /\ \A i \in DOMAIN attempts :
         /\ i \in DOMAIN attempt_log
         /\ attempt_log[i].service = attempts[i].service
         /\ attempt_log[i].audio_size_mb = file_size_mb
         /\ attempt_log[i].gpu_available = cuda_available
         /\ attempt_log[i].success = attempts[i].accepted
         /\ attempt_log[i].duration_seconds = attempts[i].elapsed

\* C7: a run never leaves by an exception: when a stage fails it returns a
\* result object with success = false, an error and the attempt log.
C7_RunReturnsStructuredResult ==
    pc = "done" => run_outcome.kind = "returned"

-----------------------------------------------------------------------------
(* Properties of the ranking *)

Ascending(services) ==
    \A i \in 1..(Len(services) - 1) : services[i].priority < services[i + 1].priority

Ranked == ServiceNames(rank_result.services)

\* C8: the ranked list holds groq iff its key is present and the size is at
\* most 20MB, the accelerated backend iff an accelerator is detected,
\* openai_whisper iff its key is present and the size is at most 25MB, the
\* unaccelerated backend always; it is in strictly ascending priority order
\* and the selected service is its first element.
C8_RankingMatchesPolicy ==
    rank_calls > 0 =>
        /\ ("groq" \in Ranked <=>
                (rank_env.groq_key /\ rank_env.file_size_mb <= 20))
        /\ ("faster_whisper_gpu" \in Ranked <=> rank_env.torch = "cuda")
        /\ ("openai_whisper" \in Ranked <=>
                (rank_env.openai_key /\ rank_env.file_size_mb <= 25))
        /\ "faster_whisper_cpu" \in Ranked
        /\ Ascending(rank_result.services)
        /\ rank_result.services # <<>>
        /\ rank_result.selected = rank_result.services[1].name

DetectionFails(t) == t \in {"import_error", "query_error"}

\* C10: accelerator detection never raises and reports "not available" when
\* it fails; the ranking never propagates an error, and after a failed
\* detection it is the ranking without the accelerated backend.
C10_ProbingNeverThrows ==
    /\ ~detect_cuda_availability(torch).raised
    /\ (DetectionFails(torch) => ~detect_cuda_availability(torch).available)
    /\ (rank_calls > 0 =>
            /\ ~rank_result.raised
            /\ rank_result.selected # NoService
            /\ (DetectionFails(rank_env.torch) => "faster_whisper_gpu" \notin Ranked))

\* a ranking was returned in a state where querying the accelerator fails
C10_Witness ==
    /\ rank_calls > 0
    /\ rank_env.torch = "query_error"
    /\ rank_env.file_exists
    /\ rank_result.services # <<>>

\* C11: every ranked list select_optimal_transcription_service returns, the
\* one of the degraded path included, is non-empty and ends with the
\* unaccelerated local backend.
C11_CpuBackendAlwaysLast ==
    rank_calls > 0 =>
        /\ Len(rank_result.services) >= 1
        /\ Last(rank_result.services).name = "faster_whisper_cpu"

-----------------------------------------------------------------------------
(* Properties of the chunker *)

\* chunk k (index k - 1) spans [max(0, i*600000 - 1000),
\* min(durationMs, (i+1)*600000 + 1000)] of the asset
SpansOverlappedWindow(k) ==
    /\ ~chunks[k].original
    /\ chunks[k].index = k - 1
    /\ chunks[k].chunk_start = Max(0, (k - 1) * ChunkDurationMs - OverlapMs)
    /\ chunks[k].chunk_end = Min(duration_ms, k * ChunkDurationMs + OverlapMs)

\* there are ceil(durationMs / 600000) chunks, each over its window
SplitIntoWindows ==
    /\ Len(chunks) * ChunkDurationMs >= duration_ms
    /\ (Len(chunks) - 1) * ChunkDurationMs < duration_ms
    /\ \A k \in DOMAIN chunks : SpansOverlappedWindow(k)

\* pydub is missing, cannot load the asset or cannot export a chunk
ChunkingFails ==
    \/ pydub \in {"import_error", "load_error"}
    \/ pydub = "export_error" /\ duration_ms > 0

-----------------------------------------------------------------------------
(* Properties of the merger *)

\* the results the chunk loop kept, as the API returned them
RECURSIVE KeptAnswers(_)
KeptAnswers(k) ==
    IF k = 0 THEN <<>>
    ELSE IF chunk_answers[k].raised THEN KeptAnswers(k - 1)
    ELSE Append(KeptAnswers(k - 1), chunk_answers[k].result)

Kept == KeptAnswers(Len(chunk_answers))

Merged == merged_result # None

\* sum over the kept chunks before chunk k that have a segment of
\* (end of the chunk's last segment - 1.0s)
RECURSIVE AccumulatedOffset(_)
AccumulatedOffset(k) ==
    IF k = 1 THEN 0
    ELSE AccumulatedOffset(k - 1)
         + (IF Kept[k - 1].segments # <<>>
            THEN Last(Kept[k - 1].segments).end - 1000
            ELSE 0)

RECURSIVE SegmentsBefore(_)
SegmentsBefore(k) ==
    IF k = 1 THEN 0 ELSE SegmentsBefore(k - 1) + Len(Kept[k - 1].segments)

\* where segment s of kept chunk k stands in the merged sequence
MergedAt(k, s) == merged_result.segments[SegmentsBefore(k) + s]

ShiftedBy(merged, original, offset) ==
    /\ merged.start = original.start + offset
    /\ merged.end = original.end + offset
    /\ Len(merged.words) = Len(original.words)
    /\ \A j \in DOMAIN original.words :
         /\ merged.words[j].start = original.words[j].start + offset
         /\ merged.words[j].end = original.words[j].end + offset

EveryChunkShiftedByItsOffset ==
    \A k \in DOMAIN Kept : \A s \in DOMAIN Kept[k].segments :
        /\ SegmentsBefore(k) + s \in DOMAIN merged_result.segments
        /\ ShiftedBy(MergedAt(k, s), Kept[k].segments[s], AccumulatedOffset(k))

\* C13: the merger shifts every segment start and end and every word start
\* and end of chunk k by one and the same offset, which is 0 for the first
\* chunk and grows, for each earlier chunk with a segment, by the end of that
\* chunk's last segment minus one second.
C13_ChunkShiftedByAccumulatedOffset ==
    Merged => EveryChunkShiftedByItsOffset

\* three chunks were merged, the second without a segment, the third of two
\* segments and shifted by a non-zero offset
C13_Witness ==
    /\ Merged
    /\ Len(Kept) = 3
    /\ Kept[1].segments # <<>>
    /\ Kept[2].segments = <<>>
    /\ Len(Kept[3].segments) = 2
    /\ AccumulatedOffset(3) > 0
    /\ Kept[3].segments[1].start > 0

RECURSIVE TotalWords(_)
TotalWords(k) ==
    IF k = 0 THEN 0 ELSE TotalWords(k - 1) + SumWords(Kept[k].segments)

WordTexts(segment) == [j \in DOMAIN segment.words |-> segment.words[j].word]

\* C14: the merged segment sequence is the kept chunks' segment lists one
\* after the other, with ids 0..n-1; every segment keeps its words, and the
\* merged word count is the sum of the chunks' word counts.
C14_ConcatenationWithDenseIds ==
    Merged =>
        /\ Len(merged_result.segments) = SegmentsBefore(Len(Kept) + 1)
        /\ \A p \in DOMAIN merged_result.segments : merged_result.segments[p].id = p - 1
        /\ \A k \in DOMAIN Kept : \A s \in DOMAIN Kept[k].segments :
             /\ SegmentsBefore(k) + s \in DOMAIN merged_result.segments
             /\ WordTexts(MergedAt(k, s)) = WordTexts(Kept[k].segments[s])
        /\ SumWords(merged_result.segments) = TotalWords(Len(Kept))

\* two chunks of two segments each were merged after a chunk had failed
C14_Witness ==
    /\ Merged
    /\ Len(chunk_answers) = 3
    /\ Len(Kept) = 2
    /\ Len(Kept[1].segments) = 2
    /\ Len(Kept[2].segments) = 2
    /\ merged_result.segments[3].id = 2

\* the words of the merged result, in order
RECURSIVE WordsUpTo(_, _)
WordsUpTo(segments, p) ==
    IF p = 0 THEN <<>> ELSE WordsUpTo(segments, p - 1) \o segments[p].words

MergedWords == WordsUpTo(merged_result.segments, Len(merged_result.segments))

NonDecreasing(words) ==
    \A i \in 1..(Len(words) - 1) : words[i].start <= words[i + 1].start

\* C15: the chunks' own word timestamps being non-decreasing, the merged
\* word timestamps are non-decreasing across every chunk boundary: the first
\* word of a chunk never starts before the last word of the chunk before it.
C15_MonotonicAcrossBoundaries ==
    Merged => NonDecreasing(MergedWords)

SomeChunkFailed == \E k \in DOMAIN chunk_answers : chunk_answers[k].raised

\* C16: a chunk whose call failed adds no segment and no offset, the other
\* chunks are merged into the one result transcribe_with_groq returns, and
\* that result's timestamps are monotonic.
C16_FailedChunkSkipped ==
    (groq_pc = "done" /\ SomeChunkFailed /\ Kept # <<>>) =>
        /\ Merged
        /\ groq_outcome = Return(merged_result)
        /\ Len(merged_result.segments) = SegmentsBefore(Len(Kept) + 1)
        /\ EveryChunkShiftedByItsOffset
        /\ NonDecreasing(MergedWords)

\* the word lies in chunk k and in chunk k + 1, so the API returns it for both
InOverlapOf(word, k) ==
    /\ word.start >= chunks[k + 1].chunk_start
    /\ word.end <= chunks[k].chunk_end

Occurrences(word) ==
    Cardinality({i \in DOMAIN MergedWords : MergedWords[i].word = word.word})

\* C17: a word spoken in the overlap of two adjacent chunks, and so
\* transcribed in both, stands exactly once in the merged result.
C17_OverlapWordOnce ==
    (groq_pc = "done" /\ Merged) =>
        \A j \in DOMAIN source_words : \A k \in 1..(Len(chunks) - 1) :
            InOverlapOf(source_words[j], k) => Occurrences(source_words[j]) = 1

-----------------------------------------------------------------------------
(* Properties of the credential provisioning *)

\* a non-comment record of at least 7 fields whose fifth field is an integer
\* strictly greater than the current time
UnexpiredRecord(line) ==
    /\ line.kind = "record"
    /\ line.fields >= 7
    /\ line.expires_int
    /\ line.expires > current_time

HasUnexpiredRecord(lines) == \E j \in DOMAIN lines : UnexpiredRecord(lines[j])

\* the text the blob stands for
BlobLines == cookie_env.lines

\* C18: a blob is accepted only if its decoded text has a record of at least
\* 7 fields whose fifth field is an integer greater than the current time;
\* every record counted as valid has expiresAtUnix > now; for an absent blob
\* and for a blob without such a record the setup returns None.
C18_AcceptsOnlyUnexpiredCookies ==
    auth_pc = "done" =>
        /\ (auth_trace.created => HasUnexpiredRecord(BlobLines))
        /\ \A j \in DOMAIN BlobLines :
             CountsAsValid(BlobLines[j]) => BlobLines[j].expires > current_time
        /\ (~HasUnexpiredRecord(BlobLines) => auth_return = NoPath)

\* C19: the file a successful setup materializes holds valid records only
\* and has mode 0600; every path the setup returns, that of a file found in
\* temp_path included, is of a file with at least one valid record.
C19_ReturnedFileHoldsValidRecords ==
    (auth_pc = "done" /\ auth_return # NoPath) =>
        /\ auth_return.file.mode = "0600"
        /\ (auth_trace.created =>
              \A j \in DOMAIN auth_return.file.lines :
                  UnexpiredRecord(auth_return.file.lines[j]))
        /\ HasUnexpiredRecord(auth_return.file.lines)

\* C20: a blob that is not base64 is taken as the decoded text and goes on
\* to validation, and the setup does not return None for a text it would
\* accept from a base64 blob.
C20_PlainTextBlobAccepted ==
    (auth_pc = "done" /\ ~NotTruthy(cookie_env) /\ cookie_env.encoding = "plain") =>
        /\ auth_trace.validated = cookie_env
        /\ (validate_cookies(cookie_env).value /\ disk = "ok" => auth_return # NoPath)

-----------------------------------------------------------------------------
(* Properties of the run's temporary storage *)

-----------------------------------------------------------------------------
(* Properties of generate_final_results *)

FinalReturned == final_pc = "done" /\ final_result.kind = "returned"

FinalWords == final_result.value.words

Srt == final_result.value.srt

Metadata == final_result.value.metadata

InputSegments == Get(aligned_data, "segments", <<>>)

NoSegments == aligned_data # None /\ InputSegments = <<>>

\* C22: given a result with zero segments, generate_final_results does not
\* raise; it returns an empty word list, an empty SRT text, an empty plain
\* text, and metadata with word count 0, duration 0 and confidence 0.
C22_EmptyResultOnZeroSegments ==
    final_pc = "done" /\ NoSegments =>
        /\ final_result.kind = "returned"
        /\ FinalWords = <<>>
        /\ Srt = <<>>
        /\ final_result.value.plain = <<>>
        /\ Metadata.wordCount = 0
        /\ Metadata.duration = 0
        /\ Metadata.confidence.num = 0

\* the function returned on a result that has a segments list with nothing in it
C22_Witness ==
    /\ FinalReturned
    /\ aligned_data # EmptyDict
    /\ NoSegments
    /\ FinalWords = <<>>

\* every segment of the input carries words
EverySegmentHasWords ==
    \A s \in DOMAIN InputSegments : Get(InputSegments[s], "words", <<>>) # <<>>

\* the texts of the input's words, segment after segment, each trimmed
RECURSIVE TrimmedTexts(_, _)
TrimmedTexts(segments, k) ==
    IF k = 0 THEN <<>>
    ELSE TrimmedTexts(segments, k - 1)
            \o [j \in DOMAIN segments[k].words |-> Strip(segments[k].words[j].word)]

RECURSIVE WithoutEmpty(_)
WithoutEmpty(texts) ==
    IF texts = <<>> THEN <<>>
    ELSE IF Head(texts) = "" THEN WithoutEmpty(Tail(texts))
    ELSE <<Head(texts)>> \o WithoutEmpty(Tail(texts))

\* C23: the normalized words are the input's words in order, each trimmed,
\* without those whose text is empty once trimmed: no output word has an
\* empty text.
C23_TrimmedWordsWithoutEmpty ==
    FinalReturned /\ EverySegmentHasWords =>
        /\ [j \in DOMAIN FinalWords |-> FinalWords[j].word]
              = WithoutEmpty(TrimmedTexts(InputSegments, Len(InputSegments)))
        /\ \A j \in DOMAIN FinalWords : FinalWords[j].word # ""

\* words in the groups 1..i
RECURSIVE WordsThrough(_)
WordsThrough(i) == IF i = 0 THEN 0 ELSE WordsThrough(i - 1) + word_groups[i].size

\* the first and the last word of group i
FirstOf(i) == FinalWords[WordsThrough(i - 1) + 1]

LastOf(i) == FinalWords[WordsThrough(i)]

TextsOf(i) ==
    [j \in 1..word_groups[i].size |-> FinalWords[WordsThrough(i - 1) + j].word]

GroupSizes == [i \in DOMAIN word_groups |-> word_groups[i].size]

\* 23 words, one every 0.3 s
TwentyThreeWords ==
    /\ Len(FinalWords) = 2 * MaxGroupWords + 3
    /\ \A j \in 2..Len(FinalWords) : FinalWords[j].start = FinalWords[j - 1].start + 300

\* C24: the subtitle blocks split the word list, in order, into runs of 1 to
\* 10 words that leave no word out; they are numbered from 1 without a gap;
\* 23 words 0.3 s apart make three blocks of 10, 10 and 3 words.
C24_BlocksPartitionWords ==
    FinalReturned =>
        /\ Len(Srt) = Len(word_groups)
        /\ WordsThrough(Len(word_groups)) = Len(FinalWords)
        /\ \A i \in DOMAIN word_groups :
             /\ word_groups[i].size \in 1..MaxGroupWords
             /\ Srt[i].index = i
             /\ Srt[i].text = StripJoined(TextsOf(i))
             /\ word_groups[i].end = LastOf(i).end
        /\ TwentyThreeWords => GroupSizes = <<10, 10, 3>>

\* 23 words 0.3 s apart went into three blocks
C24_Witness ==
    /\ FinalReturned
    /\ TwentyThreeWords
    /\ Len(Srt) = 3
    /\ Srt[3].index = 3

\* C25: no block of more than one word lasts more than 5 s from the start of
\* its first word to the end of its last word.
C25_BlockWithinFiveSeconds ==
    FinalReturned =>
        \A i \in DOMAIN word_groups :
            word_groups[i].size > 1 => LastOf(i).end - FirstOf(i).start <= MaxGroupMs

\* the segments a backend handed over
ShapedSegments == groq_outcome.result.segments

\* C26: the result a backend hands to validation has segments of at most 10
\* words, none of more than one word lasting more than 5 s.
C26_BackendSegmentsShaped ==
    groq_pc = "done" /\ ~groq_outcome.raised =>
        \A s \in DOMAIN ShapedSegments :
            /\ Len(ShapedSegments[s].words) <= WordsPerSegment
            /\ Len(ShapedSegments[s].words) > 1 =>
                 ShapedSegments[s].end - ShapedSegments[s].start <= MaxGroupMs

\* t >= 0 below 100 hours, in milliseconds
BelowHundredHours(t) == t \in 0..359999999

\* `rendered` is HH:MM:SS,mmm for the time t
Renders(rendered, t) ==
    /\ rendered.widths = <<2, 2, 2, 3>>
    /\ rendered.minutes \in 0..59
    /\ rendered.secs \in 0..59
    /\ rendered.millis \in 0..999
    /\ rendered.hours * 3600000 + rendered.minutes * 60000
          + rendered.secs * 1000 + rendered.millis = t

\* C27: a time t >= 0 below 100 hours is rendered as HH:MM:SS,mmm with 2, 2,
\* 2 and 3 digits, MM < 60, SS < 60, mmm < 1000, and the four fields add up
\* to t in milliseconds.
C27_TimestampRendersTime ==
    FinalReturned =>
        \A i \in DOMAIN Srt :
            /\ BelowHundredHours(word_groups[i].start) =>
                 Renders(Srt[i].start_time, word_groups[i].start)
            /\ BelowHundredHours(word_groups[i].end) =>
                 Renders(Srt[i].end_time, word_groups[i].end)

RECURSIVE ConfidenceSum(_)
ConfidenceSum(k) == IF k = 0 THEN 0 ELSE ConfidenceSum(k - 1) + FinalWords[k].confidence

\* C28: the word count is the number of output words; the duration is the
\* end of the last word, 0 without words; the confidence is the mean of the
\* words' confidences, 0 without words.
C28_MetadataOfWords ==
    FinalReturned =>
        /\ Metadata.wordCount = Len(FinalWords)
        /\ Metadata.duration = IF FinalWords = <<>> THEN 0
                               ELSE FinalWords[Len(FinalWords)].end
        /\ Metadata.confidence.den > 0
        /\ IF FinalWords = <<>> THEN Metadata.confidence.num = 0
           ELSE Metadata.confidence.num * Len(FinalWords)
                    = ConfidenceSum(Len(FinalWords)) * Metadata.confidence.den

-----------------------------------------------------------------------------
(* Properties of the optional stages *)

\* C29: align_with_whisperx never raises; when a step fails it returns the
\* transcription result it was given.
C29_AlignmentFailureReturnsInput ==
    align_pc = "done" =>
        /\ align_return.kind = "returned"
        /\ (whisperx # "ok" \/ torch \in {"import_error", "query_error"}) =>
              align_return.value = align_input

\* the align step failed on a result with a segment and the result came back
C29_Witness ==
    /\ align_pc = "done"
    /\ whisperx = "align_error"
    /\ torch = "cuda"
    /\ align_input # None
    /\ align_input # EmptyDict
    /\ align_input.segments # <<>>
    /\ align_return = Returned(align_input)

\* the process was started, ended in time with code 0 and left the file
VocalsProduced ==
    /\ demucs.launch = "started"
    /\ demucs.seconds <= TimeoutSeconds
    /\ demucs.returncode = 0
    /\ vocals_exists

\* C30: separate_vocals_conservative never raises; it returns a vocals path
\* exactly when the process exits with code 0 and the vocals file exists, and
\* None on a non-zero exit, a missing file, a timeout or any other error.
C30_VocalsPathIffProduced ==
    vocals_pc = "done" =>
        /\ vocals_return.kind = "returned"
        /\ vocals_return.value # NoPath <=> VocalsProduced
        /\ VocalsProduced => vocals_return.value = PathOf(VocalsFile)

\* the process ran past the timeout although its file was there
C30_Witness ==
    /\ vocals_pc = "done"
    /\ demucs.launch = "started"
    /\ demucs.seconds > TimeoutSeconds
    /\ demucs.returncode = 0
    /\ vocals_exists
    /\ vocals_return = Returned(NoPath)

\* C39: every subtitle block starts at the start of its first word and ends
\* at the end of its last word, a block whose first word starts at 0 included.
C39_BlockSpansItsWords ==
    FinalReturned =>
        \A i \in DOMAIN word_groups :
            /\ word_groups[i].start = FirstOf(i).start
            /\ word_groups[i].end = LastOf(i).end

-----------------------------------------------------------------------------
(* Properties of transcribe_with_groq on an oversized file *)

\* C36: the un-chunked original file is never submitted to the backend when
\* it exceeds the 20MB limit.
C36_OversizedOriginalNeverSubmitted ==
    [][SingleFile => file_size_mb <= GroqLimitMb]_vars

\* C37: merge_chunked_transcriptions leaves its input unchanged: after the
\* call chunk_results holds what the chunks answered, and merging it again
\* gives the same merged result.
C37_MergeLeavesInputUnchanged ==
    Merged =>
        /\ chunk_results = Kept
        /\ merge_chunked_transcriptions(chunk_results) = merged_result

\* every chunk was transcribed, and its last segment ends where the chunk ends
EveryChunkSungToItsEnd ==
    /\ Len(Kept) = Len(chunks)
    /\ \A k \in DOMAIN Kept :
         /\ Kept[k].segments # <<>>
         /\ Last(Kept[k].segments).end = chunks[k].chunk_end - chunks[k].chunk_start

\* C38: when every chunk's final segment ends exactly at the chunk's end, the
\* merged time of every word is the chunk's start in the source plus the
\* word's time in the chunk, whatever the chunk index.
C38_MergedTimeIsSourceTime ==
    (groq_pc = "done" /\ Merged /\ EveryChunkSungToItsEnd) =>
        \A k \in DOMAIN Kept : \A s \in DOMAIN Kept[k].segments :
            \A j \in DOMAIN Kept[k].segments[s].words :
                /\ MergedAt(k, s).words[j].start
                      = chunks[k].chunk_start + Kept[k].segments[s].words[j].start
                /\ MergedAt(k, s).words[j].end
                      = chunks[k].chunk_start + Kept[k].segments[s].words[j].end

-----------------------------------------------------------------------------
(* Properties of the run around the fallback engine *)

AudioAcquired == "audio" \in artifacts

InsideOrchestrator ==
    pc \in {"orchestrator", "chain_start", "chain_loop", "chain_end",
            "orch_validate", "orch_except"}

\* C31: when the acquisition yields no audio file the run fails before any
\* backend is attempted; the orchestrator and every backend run with the
\* audio file in place.
C31_NoBackendWithoutAudio ==
    /\ InsideOrchestrator => "audio" \in temp_dir /\ file_exists
    /\ attempts # <<>> => AudioAcquired
    /\ (pc = "done" /\ ~AudioAcquired) =>
          /\ run_outcome.kind = "raised"
          /\ attempts = <<>>

\* the download answered None and the run failed with no attempt made
C31_Witness ==
    /\ pc = "done"
    /\ run_outcome = Raised(DownloadFailedMsg)
    /\ ~AudioAcquired
    /\ attempts = <<>>

\* the orchestrator was called and has returned or raised
OrchestratorLeft == pc \in {"generate", "run_except", "done"} /\ AudioAcquired

\* C34: a call of the orchestrator runs the temp-file cleanup exactly once,
\* after the last backend attempt, whether it returns or raises, and what it
\* returns passes validate_transcription_result.
C34_CleanupOncePerCall ==
    /\ OrchestratorLeft => cleanups = <<Len(attempts)>>
    /\ (InsideOrchestrator /\ pc # "orch_except") => cleanups = <<>>
    /\ pc = "generate" => validate_transcription_result(orch_return).valid

\* the fallback chain failed after four attempts and the orchestrator raised
C34_Witness ==
    /\ pc = "run_except"
    /\ raised = AllFailedMsg
    /\ Len(attempts) = 4
    /\ cleanups = <<4>>

PriorityOrder == <<"groq", "faster_whisper_gpu", "openai_whisper", "faster_whisper_cpu">>

Priority(service_name) ==
    CHOOSE p \in DOMAIN PriorityOrder : PriorityOrder[p] = service_name

AttemptsInPriorityOrder ==
    \A i, j \in DOMAIN attempts :
        i < j => Priority(attempts[i].service) < Priority(attempts[j].service)

\* C35: transcribe_with_fallback_chain, once entered, ends by returning or
\* raising; its attempts follow the order groq, faster_whisper_gpu,
\* openai_whisper, faster_whisper_cpu with no entry attempted twice, so there
\* are at most four.
C35_ChainTerminatesInOrder ==
    /\ [](AttemptsInPriorityOrder /\ Len(attempts) <= 4)
    /\ (pc = "chain_start") ~> (pc \in {"orch_validate", "orch_except"})

\* four attempts were made and the chain raised the all-failed error
C35_Witness ==
    /\ pc = "orch_except"
    /\ raised = AllFailedMsg
    /\ Len(attempts) = 4
    /\ attempts[4].service = "faster_whisper_cpu"

\* C40: whenever the faster_whisper_cpu entry is attempted the local model
\* is loaded on the cpu device, accelerator or not.
C40_CpuEntryRunsOnCpu ==
    \A i \in DOMAIN attempts :
        attempts[i].service = "faster_whisper_cpu" => attempts[i].device = "cpu"

-----------------------------------------------------------------------------
(* Properties of the signal handler and of the retry wrapper *)

\* C32: on SIGTERM, SIGINT or SIGHUP the installed handler runs the
\* GPU-memory cleanup, then the temp-file cleanup, and then exits with status
\* 128 + the signal number, also when a cleanup step fails.
C32_HandlerCleansUpThenExits ==
    /\ signal_pc = "exited" =>
          /\ signum \in HandledSignals
          /\ handler_trace = <<"safe_gpu_memory_cleanup", "cleanup_temp_files">>
          /\ exit_status = 128 + signum
    /\ signal_pc # "exited" => handler_trace = <<>>

\* SIGTERM arrived while torch could not be imported and glob failed: both
\* cleanups were called and the process exited with 143
C32_Witness ==
    /\ signal_pc = "exited"
    /\ signum = 15
    /\ torch = "import_error"
    /\ temp_fs = "glob_error"
    /\ handler_trace = <<"safe_gpu_memory_cleanup", "cleanup_temp_files">>
    /\ exit_status = 143

\* what the wrapper does around three failing invocations
Events == [k \in DOMAIN retry_trace |-> <<retry_trace[k].event, retry_trace[k].seconds>>]

ThreeTries ==
    <<<<"invoke", 0>>, <<"safe_gpu_memory_cleanup", 0>>, <<"sleep", 1000>>,
      <<"invoke", 0>>, <<"safe_gpu_memory_cleanup", 0>>, <<"sleep", 2000>>,
      <<"invoke", 0>>>>

Invocations == {k \in DOMAIN retry_trace : retry_trace[k].event = "invoke"}

\* C33: the wrapped function is invoked at most 3 times; the first success
\* is returned and ends the call; a failed first or second invocation is
\* followed by the GPU cleanup and a wait of 1.0 s, then 2.0 s; a failed third
\* invocation propagates with no further cleanup, wait or invocation.
C33_AtMostThreeInvocations ==
    /\ Cardinality(Invocations) <= 3
    /\ Len(Events) <= Len(ThreeTries)
    /\ Events = SubSeq(ThreeTries, 1, Len(Events))
    /\ \A k \in Invocations : k < Len(retry_trace) => retry_trace[k].outcome.raised
    /\ retry_pc = "done" =>
          /\ Last(retry_trace).event = "invoke"
          /\ IF Last(retry_trace).outcome.raised
             THEN /\ Cardinality(Invocations) = 3
                  /\ retry_outcome = Raised(Last(retry_trace).outcome.error)
             ELSE retry_outcome = Returned(Last(retry_trace).outcome.result)

\* two invocations failed, the third succeeded and its result was returned
C33_Witness ==
    /\ retry_pc = "done"
    /\ Cardinality(Invocations) = 3
    /\ retry_outcome.kind = "returned"
    /\ Len(retry_trace) = 7

====
